---- MODULE Spec2Model ----
(***************************************************************************)
(* Model of sampo (src/src/main.rs): the action log with undo/redo, the    *)
(* projection of the log onto the displayed measurements, the two capture  *)
(* state machines driven by canvas clicks, and the snapping functions.     *)
(*                                                                         *)
(* Numbers.  The program computes in f32.  The model computes in fixed     *)
(* point: a coordinate or a length is an integer number of 1/Scale pixels, *)
(* and every division or square root rounds to the nearest such number.    *)
(* An Option<T> is a record [tag |-> "None"] or [tag |-> "Some", val |-> v]*)
(* and an enum value is a record with a tag field.                         *)
(***************************************************************************)
EXTENDS Integers, Sequences, FiniteSets, TLC

\* ---------------------------------------------------------------- bounds

\* Longest action log explored when the whole application runs
\* (History.actions is an unbounded Vec).
MaxActions == 2

\* Longest action log explored when the history is driven with arbitrary
\* actions.
MaxLog == 3

\* Longest action log explored when the two capture machines are driven
\* with their richer events.
MaxCaptures == 1

\* Fixed-point resolution: units per pixel.
Scale == 10

\* ----------------------------------------------------------- arithmetic

Abs(n) == IF n < 0 THEN 0 - n ELSE n

\* f32::signum: 1.0 for +0.0 and positive numbers, -1.0 for negative ones.
Signum(n) == IF n < 0 THEN 0 - 1 ELSE 1

\* n / d rounded to the nearest integer, halves away from zero (d > 0).
RoundDiv(n, d) ==
    IF n >= 0 THEN (2 * n + d) \div (2 * d)
    ELSE 0 - ((2 * (0 - n) + d) \div (2 * d))

\* The largest r in lo..hi with r * r <= n.
RECURSIVE SqrtBetween(_, _, _)
SqrtBetween(n, lo, hi) ==
    IF lo >= hi THEN lo
    ELSE LET mid == (lo + hi + 1) \div 2
         IN  IF mid * mid <= n THEN SqrtBetween(n, mid, hi)
             ELSE SqrtBetween(n, lo, mid - 1)

\* Square root rounded to the nearest integer.
Sqrt(n) ==
    LET r == SqrtBetween(n, 0, IF n < 46340 THEN n ELSE 46340)
    IN  IF n - r * r > r THEN r + 1 ELSE r

\* ----------------------------------------------------------- data model

Pos2(x, y) == [x |-> x, y |-> y]

\* Pos2::distance / Vec2::length.
Distance(a, b) == Sqrt((b.x - a.x) * (b.x - a.x) + (b.y - a.y) * (b.y - a.y))

None == [tag |-> "None"]
Some(v) == [tag |-> "Some", val |-> v]

\* Measurement::new
NewMeasurement(start, end) ==
    [start |-> start, end |-> end, distance_px |-> Distance(start, end)]

\* Faulty variant of NewRectangleMeasurement: the differences keep their sign.
NewRectangleMeasurement_signed(corner1, corner2) ==
    LET width_px == corner2.x - corner1.x
        height_px == corner2.y - corner1.y
    IN  [corner1 |-> corner1, corner2 |-> corner2,
         width_px |-> width_px, height_px |-> height_px,
         area_px |-> width_px * height_px]

\* RectangleMeasurement::new (area_px is in units of 1/Scale^2 square pixels)
NewRectangleMeasurement(corner1, corner2) ==
    LET width_px == Abs(corner2.x - corner1.x)
        height_px == Abs(corner2.y - corner1.y)
    IN  [corner1 |-> corner1, corner2 |-> corner2,
         width_px |-> width_px, height_px |-> height_px,
         area_px |-> width_px * height_px]

NewCalibration(pixels_per_unit, unit_name) ==
    [pixels_per_unit |-> pixels_per_unit, unit_name |-> unit_name]

\* enum Action
AddLine(m) == [tag |-> "AddLine", m |-> m]
AddRect(r) == [tag |-> "AddRect", r |-> r]
RemoveLine(i) == [tag |-> "RemoveLine", index |-> i]
RemoveRect(i) == [tag |-> "RemoveRect", index |-> i]
SetCalibration(c) == [tag |-> "SetCalibration", cal |-> c]

\* enum MeasurementState / CalibrationState
Idle == [tag |-> "Idle"]
FirstPointSelected(p) == [tag |-> "FirstPointSelected", start |-> p]
WaitingForInput(start, end, distance_px) ==
    [tag |-> "WaitingForInput", start |-> start, end |-> end,
     distance_px |-> distance_px]

\* ------------------------------------------------------------- snapping

\* SNAP_ANGLE_TOLERANCE_DEG = 5.0; tan(5 degrees) = TanTolNum / TanTolDen
\* to six decimals.
TanTolNum == 87489
TanTolDen == 1000000

\* Faulty variant of WithinTolerance: the difference of the angles is taken
\* around the circle, so that 180 and -180 are the same direction.
WithinTolerance_wrapped(dx, dy, snap_angle) ==
    CASE snap_angle = 0 -> dx > 0 /\ Abs(dy) * TanTolDen <= TanTolNum * dx
      [] snap_angle = 90 -> dy > 0 /\ Abs(dx) * TanTolDen <= TanTolNum * dy
      [] snap_angle = 180 \/ snap_angle = 0 - 180 ->
            dx < 0 /\ Abs(dy) * TanTolDen <= TanTolNum * Abs(dx)
      [] snap_angle = 0 - 90 ->
            dy < 0 /\ Abs(dx) * TanTolDen <= TanTolNum * Abs(dy)
      [] OTHER -> FALSE

\* |atan2(dy, dx) in degrees - snap_angle| <= SNAP_ANGLE_TOLERANCE_DEG, for
\* the five snap angles.  atan2 ranges over (-180, 180], and reaches 180
\* (never -180) on the negative x axis, where dy is +0.0.
WithinTolerance(dx, dy, snap_angle) ==
    CASE snap_angle = 0 -> dx > 0 /\ Abs(dy) * TanTolDen <= TanTolNum * dx
      [] snap_angle = 90 -> dy > 0 /\ Abs(dx) * TanTolDen <= TanTolNum * dy
      [] snap_angle = 180 ->
            dx < 0 /\ dy >= 0 /\ dy * TanTolDen <= TanTolNum * Abs(dx)
      [] snap_angle = 0 - 180 ->
            dx < 0 /\ dy < 0 /\ Abs(dy) * TanTolDen <= TanTolNum * Abs(dx)
      [] snap_angle = 0 - 90 ->
            dy < 0 /\ Abs(dx) * TanTolDen <= TanTolNum * Abs(dy)
      [] OTHER -> FALSE

\* Faulty variant of snap_angles: -180 is missing.
snap_angles_without_minus_180 == <<0, 90, 180, 0 - 90>>

\* let snap_angles = [0.0, 90.0, 180.0, -180.0, -90.0]
snap_angles == <<0, 90, 180, 0 - 180, 0 - 90>>

\* (cos, sin) of a snap angle
CosOf(a) == IF a = 0 THEN 1 ELSE IF a = 180 \/ a = 0 - 180 THEN 0 - 1 ELSE 0
SinOf(a) == IF a = 90 THEN 1 ELSE IF a = 0 - 90 THEN 0 - 1 ELSE 0

\* distance < 0.001 (pixels)
Degenerate(distance) == distance * 1000 < Scale

RECURSIVE SnapFrom(_, _, _, _)
SnapFrom(start, end, distance, i) ==
    IF i > Len(snap_angles) THEN end
    ELSE IF WithinTolerance(end.x - start.x, end.y - start.y, snap_angles[i])
         THEN Pos2(start.x + distance * CosOf(snap_angles[i]),
                   start.y + distance * SinOf(snap_angles[i]))
         ELSE SnapFrom(start, end, distance, i + 1)

snap_to_angle(start, end) ==
    LET distance == Distance(start, end)
    IN  IF Degenerate(distance) THEN end ELSE SnapFrom(start, end, distance, 1)

\* Faulty variant of snap_length_to_multiple: halves go to the even multiple.
snap_length_to_multiple_half_even(length, multiple) ==
    IF multiple <= 0 THEN length
    ELSE LET q == length \div multiple
             r == length % multiple
             rounded == IF 2 * r < multiple THEN q
                        ELSE IF 2 * r > multiple THEN q + 1
                        ELSE IF q % 2 = 0 THEN q ELSE q + 1
         IN  rounded * multiple

snap_length_to_multiple(length, multiple) ==
    IF multiple <= 0 THEN length
    ELSE RoundDiv(length, multiple) * multiple

\* Faulty variant of snap_line_length: the start point is not added back.
snap_line_length_from_origin(start, end, multiple) ==
    IF multiple <= 0 THEN end
    ELSE LET distance == Distance(start, end)
         IN  IF Degenerate(distance) THEN end
             ELSE LET snapped_distance ==
                          snap_length_to_multiple(distance, multiple)
                  IN  Pos2(RoundDiv((end.x - start.x) * snapped_distance,
                                    distance),
                           RoundDiv((end.y - start.y) * snapped_distance,
                                    distance))

\* Faulty variant of snap_line_length: a negative multiple snaps as well.
snap_line_length_abs_multiple(start, end, multiple) ==
    IF multiple = 0 THEN end
    ELSE LET distance == Distance(start, end)
         IN  IF Degenerate(distance) THEN end
             ELSE LET snapped_distance ==
                          snap_length_to_multiple(distance, Abs(multiple))
                  IN  Pos2(start.x + RoundDiv((end.x - start.x) * snapped_distance,
                                              distance),
                           start.y + RoundDiv((end.y - start.y) * snapped_distance,
                                              distance))

snap_line_length(start, end, multiple) ==
    IF multiple <= 0 THEN end
    ELSE LET distance == Distance(start, end)
         IN  IF Degenerate(distance) THEN end
             ELSE LET snapped_distance ==
                          snap_length_to_multiple(distance, multiple)
                  IN  Pos2(start.x + RoundDiv((end.x - start.x) * snapped_distance,
                                              distance),
                           start.y + RoundDiv((end.y - start.y) * snapped_distance,
                                              distance))

\* Faulty variant of snap_rect_dimensions: the signs of the deltas are lost.
snap_rect_dimensions_unsigned(corner1, corner2, multiple) ==
    IF multiple <= 0 THEN corner2
    ELSE LET dx == corner2.x - corner1.x
             dy == corner2.y - corner1.y
             snapped_width == snap_length_to_multiple(Abs(dx), multiple)
             snapped_height == snap_length_to_multiple(Abs(dy), multiple)
         IN  Pos2(corner1.x + snapped_width, corner1.y + snapped_height)

snap_rect_dimensions(corner1, corner2, multiple) ==
    IF multiple <= 0 THEN corner2
    ELSE LET dx == corner2.x - corner1.x
             dy == corner2.y - corner1.y
             snapped_width == snap_length_to_multiple(Abs(dx), multiple) * Signum(dx)
             snapped_height == snap_length_to_multiple(Abs(dy), multiple) * Signum(dy)
         IN  Pos2(corner1.x + snapped_width, corner1.y + snapped_height)

\* -------------------------------------------------------------- History

\* History::default
EmptyHistory == [actions |-> <<>>, cursor |-> 0]

\* Faulty variants of push_action: no truncation; no truncation and the
\* cursor only advanced by one; truncation one entry too late.
push_action_keep_all(h, action) ==
    LET pushed == Append(h.actions, action)
    IN  [actions |-> pushed, cursor |-> Len(pushed)]

push_action_keep_tail(h, action) ==
    [actions |-> Append(h.actions, action), cursor |-> h.cursor + 1]

push_action_off_by_one(h, action) ==
    LET kept == IF h.cursor < Len(h.actions)
                THEN SubSeq(h.actions, 1, h.cursor + 1)
                ELSE h.actions
        pushed == Append(kept, action)
    IN  [actions |-> pushed, cursor |-> Len(pushed)]

push_action(h, action) ==
    LET kept == IF h.cursor < Len(h.actions)
                THEN SubSeq(h.actions, 1, h.cursor)
                ELSE h.actions
        pushed == Append(kept, action)
    IN  [actions |-> pushed, cursor |-> Len(pushed)]

\* Faulty variant of can_undo: the first entry of the log cannot be undone.
can_undo_after_first(h) == h.cursor > 1

can_undo(h) == h.cursor > 0

can_redo(h) == h.cursor < Len(h.actions)

\* Faulty variants of undo: back to the start of the log; success reported
\* at the start of the log; the undone entry dropped from the log.
undo_to_start(h) ==
    IF h.cursor > 0
    THEN [h |-> [h EXCEPT !.cursor = 0], ret |-> TRUE]
    ELSE [h |-> h, ret |-> FALSE]

undo_always_true(h) ==
    IF h.cursor > 0
    THEN [h |-> [h EXCEPT !.cursor = h.cursor - 1], ret |-> TRUE]
    ELSE [h |-> h, ret |-> TRUE]

undo_popping(h) ==
    IF h.cursor > 0
    THEN [h |-> [actions |-> SubSeq(h.actions, 1, h.cursor - 1),
                 cursor |-> h.cursor - 1],
          ret |-> TRUE]
    ELSE [h |-> h, ret |-> FALSE]

\* Faulty variant of redo: no can_redo() check.
redo_unguarded(h) == [h |-> [h EXCEPT !.cursor = h.cursor + 1], ret |-> TRUE]

\* undo and redo return the new history and the bool the method returns.
undo(h) ==
    IF can_undo(h)
    THEN [h |-> [h EXCEPT !.cursor = h.cursor - 1], ret |-> TRUE]
    ELSE [h |-> h, ret |-> FALSE]

redo(h) ==
    IF can_redo(h)
    THEN [h |-> [h EXCEPT !.cursor = h.cursor + 1], ret |-> TRUE]
    ELSE [h |-> h, ret |-> FALSE]

\* Faulty variant of VecRemove: the last element goes (Vec::pop), whatever
\* the index.
VecRemove_pop(v, index) == SubSeq(v, 1, Len(v) - 1)

\* Vec::remove(index): the elements after index shift down by one.
VecRemove(v, index) == SubSeq(v, 1, index) \o SubSeq(v, index + 2, Len(v))

\* Faulty variant of ApplyAction: an added line goes to the front of the list.
ApplyAction_prepend(st, action) ==
    CASE action.tag = "AddLine" ->
            [st EXCEPT !.measurements = <<action.m>> \o @]
      [] action.tag = "AddRect" ->
            [st EXCEPT !.rectangle_measurements = Append(@, action.r)]
      [] action.tag = "RemoveLine" ->
            IF action.index < Len(st.measurements)
            THEN [st EXCEPT !.measurements = VecRemove(@, action.index)]
            ELSE st
      [] action.tag = "RemoveRect" ->
            IF action.index < Len(st.rectangle_measurements)
            THEN [st EXCEPT !.rectangle_measurements = VecRemove(@, action.index)]
            ELSE st
      [] action.tag = "SetCalibration" ->
            [st EXCEPT !.calibration = action.cal]

\* Faulty variant of ApplyAction: SetCalibration(None) keeps the calibration
\* it finds (a merge instead of a replacement).
ApplyAction_merge(st, action) ==
    CASE action.tag = "AddLine" ->
            [st EXCEPT !.measurements = Append(@, action.m)]
      [] action.tag = "AddRect" ->
            [st EXCEPT !.rectangle_measurements = Append(@, action.r)]
      [] action.tag = "RemoveLine" ->
            IF action.index < Len(st.measurements)
            THEN [st EXCEPT !.measurements = VecRemove(@, action.index)]
            ELSE st
      [] action.tag = "RemoveRect" ->
            IF action.index < Len(st.rectangle_measurements)
            THEN [st EXCEPT !.rectangle_measurements = VecRemove(@, action.index)]
            ELSE st
      [] action.tag = "SetCalibration" ->
            IF action.cal.tag = "None" THEN st
            ELSE [st EXCEPT !.calibration = action.cal]

\* One iteration of the replay loop: indices are 0-based as in the code.
ApplyAction(st, action) ==
    CASE action.tag = "AddLine" ->
            [st EXCEPT !.measurements = Append(@, action.m)]
      [] action.tag = "AddRect" ->
            [st EXCEPT !.rectangle_measurements = Append(@, action.r)]
      [] action.tag = "RemoveLine" ->
            IF action.index < Len(st.measurements)
            THEN [st EXCEPT !.measurements = VecRemove(@, action.index)]
            ELSE st
      [] action.tag = "RemoveRect" ->
            IF action.index < Len(st.rectangle_measurements)
            THEN [st EXCEPT !.rectangle_measurements = VecRemove(@, action.index)]
            ELSE st
      [] action.tag = "SetCalibration" ->
            [st EXCEPT !.calibration = action.cal]

EmptyState ==
    [measurements |-> <<>>, rectangle_measurements |-> <<>>, calibration |-> None]

\* self.actions.iter().take(self.cursor): replay of the first n actions.
RECURSIVE Replay(_, _)
Replay(actions, n) ==
    LET m == IF n < Len(actions) THEN n ELSE Len(actions)
    IN  IF m = 0 THEN EmptyState
        ELSE ApplyAction(Replay(actions, m - 1), actions[m])

\* Faulty variant of rebuild_state: the whole log is replayed (no take(cursor)).
rebuild_state_whole_log(h) == Replay(h.actions, Len(h.actions))

rebuild_state(h) == Replay(h.actions, h.cursor)

\* Faulty variant of reset_with_calibration: the calibration is not kept.
reset_dropping_calibration(h, calibration) == [actions |-> <<>>, cursor |-> 0]

\* Faulty variant of reset_with_calibration: the argument is pushed even when
\* it is None.
reset_always_pushing(h, calibration) ==
    LET pushed == Append(<<>>, SetCalibration(calibration))
    IN  [actions |-> pushed, cursor |-> Len(pushed)]

reset_with_calibration(h, calibration) ==
    IF calibration.tag = "Some"
    THEN LET pushed == Append(<<>>, SetCalibration(Some(calibration.val)))
         IN  [actions |-> pushed, cursor |-> Len(pushed)]
    ELSE [actions |-> <<>>, cursor |-> 0]

\* ------------------------------------------------------------- SampoApp

VARIABLES
    image_texture,           \* TRUE when an image is loaded (Option is Some)
    history,                 \* History {actions, cursor}
    measurements,            \* Vec<Measurement>
    rectangle_measurements,  \* Vec<RectangleMeasurement>
    calibration,             \* Option<Calibration>
    measurement_state,       \* MeasurementState
    measurement_mode,        \* "Line" or "Rectangle"
    calibration_state,       \* CalibrationState
    is_calibrating,          \* bool
    length_snap_multiple,    \* f32, in 1/Scale pixels
    last,                    \* history variable: the handler that ran last
    mark,                    \* history variable: the log before a run of undos
    input,                   \* history variable: what the last handler was given
    snap                     \* arguments and result of a snapping function

app_vars == <<image_texture, history, measurements, rectangle_measurements,
              calibration, measurement_state, measurement_mode,
              calibration_state, is_calibrating, length_snap_multiple>>

vars == <<image_texture, history, measurements, rectangle_measurements,
          calibration, measurement_state, measurement_mode,
          calibration_state, is_calibrating, length_snap_multiple, last, mark,
          input, snap>>

\* The derived state the application exposes.
Derived ==
    [measurements |-> measurements,
     rectangle_measurements |-> rectangle_measurements,
     calibration |-> calibration]

\* ---- inputs

\* Image points a click can land on (1/Scale pixels): the first click of a
\* capture, and the click that follows it.
FirstPoints == {Pos2(0, 0)}
ClickPoints == {Pos2(0, 0), Pos2(12 * Scale, 1 * Scale)}

\* Values the length-snap DragValue is set to (range 0..=100 pixels).
SnapMultiples == {0, 1 * Scale}

\* Texts typed into the real-distance field, and the unit field (free text:
\* "px" is the name that is also the label of an uncalibrated export).
CalibrationInputs == {"abc", "0", "-2", "NaN", "inf", "2"}
UnitNames == {"px"}

\* str::parse::<f32>: Err, or Ok of a finite number, NaN or infinity.
ParseF32(text) ==
    CASE text = "0" -> [tag |-> "Ok", kind |-> "finite", num |-> 0]
      [] text = "-2" -> [tag |-> "Ok", kind |-> "finite", num |-> 0 - 2]
      [] text = "2" -> [tag |-> "Ok", kind |-> "finite", num |-> 2]
      [] text = "4" -> [tag |-> "Ok", kind |-> "finite", num |-> 4]
      [] text = "NaN" -> [tag |-> "Ok", kind |-> "nan", num |-> 0]
      [] text = "inf" -> [tag |-> "Ok", kind |-> "inf", num |-> 1]
      [] OTHER -> [tag |-> "Err", kind |-> "none", num |-> 0]

\* real_distance > 0.0 : false for NaN, true for +infinity.
IsPositive(f) == (f.kind = "finite" /\ f.num > 0) \/ (f.kind = "inf" /\ f.num > 0)

\* Faulty variant of DivF32: a product instead of a quotient.
DivF32_times(distance_px, f) ==
    IF f.kind = "inf" THEN 0 ELSE distance_px * f.num

\* distance_px / real_distance, for real_distance > 0.0
DivF32(distance_px, f) ==
    IF f.kind = "inf" THEN 0 ELSE RoundDiv(distance_px, f.num)

\* ---- history variables

\* last: the handler that ran last, what it returned, and for a handler that
\* called push_action: the action, the length of the redo tail it found and
\* the derived state it found.
Ran(op, ret) ==
    [op |-> op, ret |-> ret, tail |-> 0, pushed |-> None, before |-> None]

Pushed(op, h, action, st) ==
    [op |-> op, ret |-> TRUE, tail |-> Len(h.actions) - h.cursor,
     pushed |-> Some(action), before |-> Some(st)]

IsPush(l) == l.pushed.tag = "Some"

Range(seq) == {seq[k] : k \in 1..Len(seq)}

\* The measurements that the AddLine entries of a log add.
LinesOf(actions) ==
    {actions[k].m : k \in {n \in 1..Len(actions) : actions[n].tag = "AddLine"}}

\* mark: the history h and derived state st at the start of the current run
\* of undos and redos, the numbers of successful undos and redos since, and
\* the measurements that the last truncation removed from the log.
Snapshot(h, st, gone) ==
    [h |-> h, st |-> st, undos |-> 0, redos |-> 0, gone |-> gone]

\* The lines that push_action(action) on h removes from the log for good.
GoneBy(h, action) ==
    LinesOf(SubSeq(h.actions, h.cursor + 1, Len(h.actions)))
        \ LinesOf(Append(SubSeq(h.actions, 1, h.cursor), action))

MarkUndo(h, st) ==
    IF mark.redos = 0 THEN [mark EXCEPT !.undos = @ + 1]
    ELSE [Snapshot(h, st, mark.gone) EXCEPT !.undos = 1]

MarkRedo(h2, st2) ==
    IF mark.redos < mark.undos THEN [mark EXCEPT !.redos = @ + 1]
    ELSE Snapshot(h2, st2, mark.gone)

\* input: the event the last handler was given (the image point and the Ctrl
\* key of a click, the two text fields of a submission) and the capture
\* state it found.
Given(kind, image_pos, is_ctrl_pressed, calibration_input, calibration_unit) ==
    [kind |-> kind, click |-> image_pos, ctrl |-> is_ctrl_pressed,
     text |-> calibration_input, unit |-> calibration_unit,
     calibrating |-> is_calibrating, cal |-> calibration_state.tag,
     meas |-> measurement_state.tag]

NoInput ==
    [kind |-> "none", click |-> Pos2(0, 0), ctrl |-> FALSE, text |-> "",
     unit |-> "", calibrating |-> FALSE, cal |-> "Idle", meas |-> "Idle"]

Event(kind) == Given(kind, Pos2(0, 0), FALSE, "", "")

\* snap: the arguments a snapping function is called with, the function
\* that was called and the point or the length it returned.
Args(start, end, multiple, length) ==
    [start |-> start, end |-> end, multiple |-> multiple, length |-> length,
     fn |-> "none", pos |-> end, len |-> length]

NoSnap == Args(Pos2(0, 0), Pos2(0, 0), 0, 0)

\* ---- handlers

Init ==
    /\ image_texture = FALSE
    /\ history = EmptyHistory
    /\ measurements = <<>>
    /\ rectangle_measurements = <<>>
    /\ calibration = None
    /\ measurement_state = Idle
    /\ measurement_mode = "Line"
    /\ calibration_state = Idle
    /\ is_calibrating = FALSE
    /\ length_snap_multiple = 1 * Scale
    /\ last = Ran("new", TRUE)
    /\ mark = Snapshot(EmptyHistory, EmptyState, {})
    /\ input = NoInput
    /\ snap = NoSnap

\* rebuild_from_history, after the history became h
RebuildFromHistory(h) ==
    LET st == rebuild_state(h)
    IN  /\ measurements' = st.measurements
        /\ rectangle_measurements' = st.rectangle_measurements
        /\ calibration' = st.calibration

\* self.history.push_action(action); self.rebuild_from_history();
PushAndRebuild(op, action) ==
    LET h2 == push_action(history, action)
    IN  /\ history' = h2
        /\ RebuildFromHistory(h2)
        /\ last' = Pushed(op, history, action, Derived)

\* Faulty variant of LoadImage: the history is not replaced.
LoadImage_keeps_history ==
    /\ image_texture' = TRUE
    /\ measurements' = <<>>
    /\ rectangle_measurements' = <<>>
    /\ measurement_state' = Idle
    /\ calibration' = None
    /\ calibration_state' = Idle
    /\ is_calibrating' = FALSE
    /\ last' = Ran("load_image", TRUE)
    /\ UNCHANGED <<history, measurement_mode, length_snap_multiple>>

\* load_image (Ok branch) and load_image_from_rgba
LoadImage ==
    /\ image_texture' = TRUE
    /\ measurements' = <<>>
    /\ rectangle_measurements' = <<>>
    /\ measurement_state' = Idle
    /\ calibration' = None
    /\ calibration_state' = Idle
    /\ is_calibrating' = FALSE
    /\ history' = EmptyHistory
    /\ last' = Ran("load_image", TRUE)
    /\ UNCHANGED <<measurement_mode, length_snap_multiple>>

\* load_image (Err branch), paste_from_clipboard without an image
LoadImageFailed ==
    /\ last' = Ran("load_image", FALSE)
    /\ UNCHANGED app_vars

\* Faulty variant of LineEnd: the Ctrl key is not looked at.
LineEnd_ignores_ctrl(start, image_pos, is_ctrl_pressed) ==
    snap_line_length(start, image_pos, length_snap_multiple)

\* The end point of a line from start to image_pos (lines 665-672).
LineEnd(start, image_pos, is_ctrl_pressed) ==
    LET angle_snapped == IF is_ctrl_pressed THEN snap_to_angle(start, image_pos)
                         ELSE image_pos
    IN  snap_line_length(start, angle_snapped, length_snap_multiple)

\* Faulty variant of CalibrationEnd: the length snap is left out.
CalibrationEnd_no_length_snap(start, image_pos, is_ctrl_pressed) ==
    IF is_ctrl_pressed THEN snap_to_angle(start, image_pos) ELSE image_pos

\* The end point of the calibration segment from start to image_pos
\* (lines 641-648).
CalibrationEnd(start, image_pos, is_ctrl_pressed) ==
    LET angle_snapped == IF is_ctrl_pressed THEN snap_to_angle(start, image_pos)
                         ELSE image_pos
        end_pos == snap_line_length(start, angle_snapped, length_snap_multiple)
    IN  end_pos

\* Faulty variant of CalibrationClick: a click while the form waits for its
\* input starts the capture again.
CalibrationClick_restart(image_pos, is_ctrl_pressed) ==
    /\ image_texture
    /\ is_calibrating
    /\ calibration_state' =
          CASE calibration_state.tag = "Idle" -> FirstPointSelected(image_pos)
            [] calibration_state.tag = "FirstPointSelected" ->
                  LET start == calibration_state.start
                      end_pos == CalibrationEnd(start, image_pos, is_ctrl_pressed)
                  IN  WaitingForInput(start, end_pos, Distance(start, end_pos))
            [] calibration_state.tag = "WaitingForInput" ->
                  FirstPointSelected(image_pos)
    /\ last' = Ran("calibration_click", TRUE)
    /\ UNCHANGED <<image_texture, history, measurements, rectangle_measurements,
                   calibration, measurement_state, measurement_mode,
                   is_calibrating, length_snap_multiple>>

\* handle_canvas_click while is_calibrating
CalibrationClick(image_pos, is_ctrl_pressed) ==
    /\ image_texture
    /\ is_calibrating
    /\ calibration_state' =
          CASE calibration_state.tag = "Idle" -> FirstPointSelected(image_pos)
            [] calibration_state.tag = "FirstPointSelected" ->
                  LET start == calibration_state.start
                      end_pos == CalibrationEnd(start, image_pos, is_ctrl_pressed)
                  IN  WaitingForInput(start, end_pos, Distance(start, end_pos))
            [] calibration_state.tag = "WaitingForInput" -> calibration_state
    /\ last' = Ran("calibration_click", TRUE)
    /\ UNCHANGED <<image_texture, history, measurements, rectangle_measurements,
                   calibration, measurement_state, measurement_mode,
                   is_calibrating, length_snap_multiple>>

\* Faulty variant of FirstClick: the start point is not the clicked point.
FirstClick_fixed_start(image_pos) ==
    /\ image_texture
    /\ ~is_calibrating
    /\ measurement_state.tag = "Idle"
    /\ measurement_state' = FirstPointSelected(Pos2(0, 0))
    /\ last' = Ran("first_click", TRUE)
    /\ UNCHANGED <<image_texture, history, measurements, rectangle_measurements,
                   calibration, measurement_mode, calibration_state,
                   is_calibrating, length_snap_multiple>>

\* handle_canvas_click, not calibrating, MeasurementState::Idle
FirstClick(image_pos) ==
    /\ image_texture
    /\ ~is_calibrating
    /\ measurement_state.tag = "Idle"
    /\ measurement_state' = FirstPointSelected(image_pos)
    /\ last' = Ran("first_click", TRUE)
    /\ UNCHANGED <<image_texture, history, measurements, rectangle_measurements,
                   calibration, measurement_mode, calibration_state,
                   is_calibrating, length_snap_multiple>>

\* Faulty variant of SecondClick: the state is left at FirstPointSelected.
SecondClick_keeps_start(image_pos, is_ctrl_pressed) ==
    /\ history.cursor < MaxActions
    /\ image_texture
    /\ ~is_calibrating
    /\ measurement_state.tag = "FirstPointSelected"
    /\ LET start == measurement_state.start
       IN  IF measurement_mode = "Line"
           THEN PushAndRebuild("add_line",
                    AddLine(NewMeasurement(start,
                        LineEnd(start, image_pos, is_ctrl_pressed))))
           ELSE PushAndRebuild("add_rect",
                    AddRect(NewRectangleMeasurement(start,
                        snap_rect_dimensions(start, image_pos,
                                             length_snap_multiple))))
    /\ UNCHANGED <<image_texture, measurement_state, measurement_mode,
                   calibration_state, is_calibrating, length_snap_multiple>>

\* handle_canvas_click, not calibrating, MeasurementState::FirstPointSelected
SecondClick(image_pos, is_ctrl_pressed) ==
    /\ history.cursor < MaxActions
    /\ image_texture
    /\ ~is_calibrating
    /\ measurement_state.tag = "FirstPointSelected"
    /\ LET start == measurement_state.start
       IN  IF measurement_mode = "Line"
           THEN PushAndRebuild("add_line",
                    AddLine(NewMeasurement(start,
                        LineEnd(start, image_pos, is_ctrl_pressed))))
           ELSE PushAndRebuild("add_rect",
                    AddRect(NewRectangleMeasurement(start,
                        snap_rect_dimensions(start, image_pos,
                                             length_snap_multiple))))
    /\ measurement_state' = Idle
    /\ UNCHANGED <<image_texture, measurement_mode, calibration_state,
                   is_calibrating, length_snap_multiple>>

\* Faulty variant of DoUndo: a successful undo cancels the measurement capture.
DoUndo_cancels_capture(op) ==
    LET r == undo(history)
    IN  /\ history' = r.h
        /\ IF r.ret THEN RebuildFromHistory(r.h)
           ELSE UNCHANGED <<measurements, rectangle_measurements, calibration>>
        /\ measurement_state' = IF r.ret THEN Idle ELSE measurement_state
        /\ last' = Ran(op, r.ret)
        /\ UNCHANGED <<image_texture, measurement_mode,
                       calibration_state, is_calibrating, length_snap_multiple>>

\* if self.history.undo() { self.rebuild_from_history(); }
DoUndo(op) ==
    LET r == undo(history)
    IN  /\ history' = r.h
        /\ IF r.ret THEN RebuildFromHistory(r.h)
           ELSE UNCHANGED <<measurements, rectangle_measurements, calibration>>
        /\ last' = Ran(op, r.ret)
        /\ UNCHANGED <<image_texture, measurement_state, measurement_mode,
                       calibration_state, is_calibrating, length_snap_multiple>>

\* if self.history.redo() { self.rebuild_from_history(); }
DoRedo(op) ==
    LET r == redo(history)
    IN  /\ history' = r.h
        /\ IF r.ret THEN RebuildFromHistory(r.h)
           ELSE UNCHANGED <<measurements, rectangle_measurements, calibration>>
        /\ last' = Ran(op, r.ret)
        /\ UNCHANGED <<image_texture, measurement_state, measurement_mode,
                       calibration_state, is_calibrating, length_snap_multiple>>

\* The Undo / Redo buttons, enabled by can_undo / can_redo.
UndoButton == can_undo(history) /\ DoUndo("undo")
RedoButton == can_redo(history) /\ DoRedo("redo")

\* The Ctrl/Cmd+Z and Shift+Ctrl/Cmd+Z shortcuts.
UndoShortcut == DoUndo("undo")
RedoShortcut == DoRedo("redo")

\* Faulty variant of ClearCalibration: the calibration capture is reset too.
ClearCalibration_resets_capture ==
    /\ history.cursor < MaxActions
    /\ calibration.tag = "Some"
    /\ PushAndRebuild("clear_calibration", SetCalibration(None))
    /\ calibration_state' = Idle
    /\ UNCHANGED <<image_texture, measurement_state, measurement_mode,
                   is_calibrating, length_snap_multiple>>

\* The "clear calibration" button, shown when a calibration is set.
ClearCalibration ==
    /\ history.cursor < MaxActions
    /\ calibration.tag = "Some"
    /\ PushAndRebuild("clear_calibration", SetCalibration(None))
    /\ UNCHANGED <<image_texture, measurement_state, measurement_mode,
                   calibration_state, is_calibrating, length_snap_multiple>>

\* Faulty variant of ToggleCalibration: the capture in progress is kept.
ToggleCalibration_keeps_capture ==
    /\ is_calibrating' = ~is_calibrating
    /\ last' = Ran("toggle_calibration", TRUE)
    /\ UNCHANGED <<image_texture, history, measurements, rectangle_measurements,
                   calibration, measurement_state, measurement_mode,
                   calibration_state, length_snap_multiple>>

\* Faulty variant of ToggleCalibration: the measurement capture is reset too.
ToggleCalibration_resets_measurement ==
    /\ is_calibrating' = ~is_calibrating
    /\ calibration_state' = Idle
    /\ measurement_state' = Idle
    /\ last' = Ran("toggle_calibration", TRUE)
    /\ UNCHANGED <<image_texture, history, measurements, rectangle_measurements,
                   calibration, measurement_mode, length_snap_multiple>>

\* The start / cancel calibration button.
ToggleCalibration ==
    /\ is_calibrating' = ~is_calibrating
    /\ calibration_state' = Idle
    /\ last' = Ran("toggle_calibration", TRUE)
    /\ UNCHANGED <<image_texture, history, measurements, rectangle_measurements,
                   calibration, measurement_state, measurement_mode,
                   length_snap_multiple>>

\* Faulty variant of SubmitCalibration: an accepted submission leaves the
\* capture state at WaitingForInput.
SubmitCalibration_leaves_capture(calibration_input, calibration_unit) ==
    /\ is_calibrating
    /\ calibration_state.tag = "WaitingForInput"
    /\ LET parsed == ParseF32(calibration_input)
       IN  IF parsed.tag = "Ok" /\ IsPositive(parsed)
           THEN /\ history.cursor < MaxActions
                /\ PushAndRebuild("set_calibration",
                       SetCalibration(Some(NewCalibration(
                           DivF32(calibration_state.distance_px, parsed),
                           calibration_unit))))
                /\ is_calibrating' = FALSE
                /\ UNCHANGED calibration_state
           ELSE /\ last' = Ran("set_calibration", FALSE)
                /\ UNCHANGED <<history, measurements, rectangle_measurements,
                               calibration, is_calibrating, calibration_state>>
    /\ UNCHANGED <<image_texture, measurement_state, measurement_mode,
                   length_snap_multiple>>

\* The apply button of the calibration form.
SubmitCalibration(calibration_input, calibration_unit) ==
    /\ is_calibrating
    /\ calibration_state.tag = "WaitingForInput"
    /\ LET parsed == ParseF32(calibration_input)
       IN  IF parsed.tag = "Ok" /\ IsPositive(parsed)
           THEN /\ history.cursor < MaxActions
                /\ PushAndRebuild("set_calibration",
                       SetCalibration(Some(NewCalibration(
                           DivF32(calibration_state.distance_px, parsed),
                           calibration_unit))))
                /\ is_calibrating' = FALSE
                /\ calibration_state' = Idle
           ELSE /\ last' = Ran("set_calibration", FALSE)
                /\ UNCHANGED <<history, measurements, rectangle_measurements,
                               calibration, is_calibrating, calibration_state>>
    /\ UNCHANGED <<image_texture, measurement_state, measurement_mode,
                   length_snap_multiple>>

\* The mode selector.
SetMode(mode) ==
    /\ measurement_mode' = mode
    /\ last' = Ran("set_mode", TRUE)
    /\ UNCHANGED <<image_texture, history, measurements, rectangle_measurements,
                   calibration, measurement_state, calibration_state,
                   is_calibrating, length_snap_multiple>>

\* The length-snap DragValue.
SetLengthSnap(multiple) ==
    /\ length_snap_multiple' = multiple
    /\ last' = Ran("set_length_snap", TRUE)
    /\ UNCHANGED <<image_texture, history, measurements, rectangle_measurements,
                   calibration, measurement_state, measurement_mode,
                   calibration_state, is_calibrating>>

\* Faulty variant of CancelMeasurement: the calibration capture is reset too.
CancelMeasurement_both ==
    /\ measurement_state.tag = "FirstPointSelected"
    /\ measurement_state' = Idle
    /\ calibration_state' = Idle
    /\ last' = Ran("cancel", TRUE)
    /\ UNCHANGED <<image_texture, history, measurements, rectangle_measurements,
                   calibration, measurement_mode, is_calibrating,
                   length_snap_multiple>>

\* The cancel button, shown while a first point is selected.
CancelMeasurement ==
    /\ measurement_state.tag = "FirstPointSelected"
    /\ measurement_state' = Idle
    /\ last' = Ran("cancel", TRUE)
    /\ UNCHANGED <<image_texture, history, measurements, rectangle_measurements,
                   calibration, measurement_mode, calibration_state,
                   is_calibrating, length_snap_multiple>>

\* Faulty variant of RemoveLineAt: the index may be one past the list.
RemoveLineAt_past_end(i) ==
    /\ history.cursor < MaxActions
    /\ i <= Len(measurements)
    /\ PushAndRebuild("remove_line", RemoveLine(i))
    /\ UNCHANGED <<image_texture, measurement_state, measurement_mode,
                   calibration_state, is_calibrating, length_snap_multiple>>

\* The x button of line i of the result list (0-based, as enumerate()).
RemoveLineAt(i) ==
    /\ history.cursor < MaxActions
    /\ i < Len(measurements)
    /\ PushAndRebuild("remove_line", RemoveLine(i))
    /\ UNCHANGED <<image_texture, measurement_state, measurement_mode,
                   calibration_state, is_calibrating, length_snap_multiple>>

\* The x button of rectangle i of the result list.
RemoveRectAt(i) ==
    /\ history.cursor < MaxActions
    /\ i < Len(rectangle_measurements)
    /\ PushAndRebuild("remove_rect", RemoveRect(i))
    /\ UNCHANGED <<image_texture, measurement_state, measurement_mode,
                   calibration_state, is_calibrating, length_snap_multiple>>

\* Faulty variant of ClearAll: the lists are emptied, the history is kept.
ClearAll_keeps_history ==
    /\ Len(measurements) > 0 \/ Len(rectangle_measurements) > 0
    /\ measurements' = <<>>
    /\ rectangle_measurements' = <<>>
    /\ last' = Ran("clear_all", TRUE)
    /\ UNCHANGED <<image_texture, history, calibration, measurement_state,
                   measurement_mode, calibration_state, is_calibrating,
                   length_snap_multiple>>

\* The "clear all" button, shown when a list is not empty.
ClearAll ==
    /\ Len(measurements) > 0 \/ Len(rectangle_measurements) > 0
    /\ measurements' = <<>>
    /\ rectangle_measurements' = <<>>
    /\ history' = reset_with_calibration(history, calibration)
    /\ last' = Ran("clear_all", TRUE)
    /\ UNCHANGED <<image_texture, calibration, measurement_state,
                   measurement_mode, calibration_state, is_calibrating,
                   length_snap_multiple>>

\* ---- export

\* An f32 of the export: a finite number (in hundredths, the two decimals of
\* {:.2}), or the infinity or NaN that a division by 0.0 gives.
Finite(n) == [kind |-> "finite", num |-> n]
Infinity == [kind |-> "inf", num |-> 1]
NaN == [kind |-> "nan", num |-> 0]

\* a / b in f32, for a >= 0 and b >= 0
Quotient(a, b) ==
    IF b # 0 THEN Finite(RoundDiv(100 * a, b))
    ELSE IF a = 0 THEN NaN ELSE Infinity

\* Measurement::distance_with_calibration
distance_with_calibration(m, cal) ==
    IF cal.tag = "Some"
    THEN [distance |-> Quotient(m.distance_px, cal.val.pixels_per_unit),
          unit |-> cal.val.unit_name]
    ELSE [distance |-> Finite(100 * m.distance_px), unit |-> "px"]

\* RectangleMeasurement::dimensions_with_calibration
dimensions_with_calibration(rm, cal) ==
    IF cal.tag = "Some"
    THEN [width |-> Quotient(rm.width_px, cal.val.pixels_per_unit),
          height |-> Quotient(rm.height_px, cal.val.pixels_per_unit),
          area |-> Quotient(rm.area_px,
                            cal.val.pixels_per_unit * cal.val.pixels_per_unit),
          unit |-> cal.val.unit_name]
    ELSE [width |-> Finite(100 * rm.width_px),
          height |-> Finite(100 * rm.height_px),
          area |-> Finite(100 * rm.area_px), unit |-> "px"]

\* A cell of the CSV: format!("{:.2}", v), which prints inf and NaN for the
\* values that are not finite, or String::new().
Format2(v) == [cell |-> "text", val |-> v]
StringNew == [cell |-> "empty"]

\* A value of the JSON: serde_json writes null for None and for a float that
\* is not finite, and the number otherwise.
JsonNull == [json |-> "null"]
JsonOptionF32(o) ==
    IF o.tag = "Some" /\ o.val.kind = "finite"
    THEN [json |-> "number", val |-> o.val.num]
    ELSE JsonNull

\* export_csv, without the header lines: the rows of the line block and of
\* the rectangle block (row k is enumerate() index k - 1).
export_csv ==
    [lines |->
        [k \in 1..Len(measurements) |->
            LET m == measurements[k]
                d == distance_with_calibration(m, calibration)
                calibrated == IF calibration.tag = "Some"
                              THEN Format2(d.distance) ELSE StringNew
            IN  [id |-> (k - 1) + 1, start |-> m.start, end |-> m.end,
                 distance_px |-> m.distance_px,
                 distance_calibrated |-> calibrated, unit |-> d.unit]],
     rectangles |->
        [k \in 1..Len(rectangle_measurements) |->
            LET rm == rectangle_measurements[k]
                d == dimensions_with_calibration(rm, calibration)
                present == calibration.tag = "Some"
            IN  [id |-> (k - 1) + 1, corner1 |-> rm.corner1,
                 corner2 |-> rm.corner2, width_px |-> rm.width_px,
                 height_px |-> rm.height_px, area_px |-> rm.area_px,
                 width_calibrated |->
                     IF present THEN Format2(d.width) ELSE StringNew,
                 height_calibrated |->
                     IF present THEN Format2(d.height) ELSE StringNew,
                 area_calibrated |->
                     IF present THEN Format2(d.area) ELSE StringNew,
                 unit |-> d.unit]]]

\* export_json: ExportData as serde_json::to_string_pretty writes it.
export_json ==
    [calibration |-> calibration,
     measurements |->
        [k \in 1..Len(measurements) |->
            LET m == measurements[k]
                d == distance_with_calibration(m, calibration)
                distance_calibrated == IF calibration.tag = "Some"
                                       THEN Some(d.distance) ELSE None
            IN  [id |-> (k - 1) + 1, start |-> m.start, end |-> m.end,
                 distance_px |-> m.distance_px,
                 distance_calibrated |-> JsonOptionF32(distance_calibrated),
                 unit |-> d.unit]],
     rectangle_measurements |->
        [k \in 1..Len(rectangle_measurements) |->
            LET rm == rectangle_measurements[k]
                d == dimensions_with_calibration(rm, calibration)
                present == calibration.tag = "Some"
            IN  [id |-> (k - 1) + 1, corner1 |-> rm.corner1,
                 corner2 |-> rm.corner2, width_px |-> rm.width_px,
                 height_px |-> rm.height_px, area_px |-> rm.area_px,
                 width_calibrated |->
                     JsonOptionF32(IF present THEN Some(d.width) ELSE None),
                 height_calibrated |->
                     JsonOptionF32(IF present THEN Some(d.height) ELSE None),
                 area_calibrated |->
                     JsonOptionF32(IF present THEN Some(d.area) ELSE None),
                 unit |-> d.unit]]]

\* ---- the application: every handler, the mark left alone

Next ==
    \/ LoadImage /\ UNCHANGED <<mark, input, snap>>
    \/ LoadImageFailed /\ UNCHANGED <<mark, input, snap>>
    \/ \E p \in ClickPoints, ctrl \in BOOLEAN :
          /\ calibration_state.tag = "Idle" => p \in FirstPoints
          /\ CalibrationClick(p, ctrl)
          /\ UNCHANGED <<mark, input, snap>>
    \/ \E p \in FirstPoints : FirstClick(p) /\ UNCHANGED <<mark, input, snap>>
    \/ \E p \in ClickPoints, ctrl \in BOOLEAN :
          SecondClick(p, ctrl) /\ UNCHANGED <<mark, input, snap>>
    \/ UndoButton /\ UNCHANGED <<mark, input, snap>>
    \/ RedoButton /\ UNCHANGED <<mark, input, snap>>
    \/ UndoShortcut /\ UNCHANGED <<mark, input, snap>>
    \/ RedoShortcut /\ UNCHANGED <<mark, input, snap>>
    \/ ClearCalibration /\ UNCHANGED <<mark, input, snap>>
    \/ ToggleCalibration /\ UNCHANGED <<mark, input, snap>>
    \/ \E t \in CalibrationInputs, u \in UnitNames :
          SubmitCalibration(t, u) /\ UNCHANGED <<mark, input, snap>>
    \/ \E m \in {"Line", "Rectangle"} : SetMode(m) /\ UNCHANGED <<mark, input, snap>>
    \/ \E v \in SnapMultiples : SetLengthSnap(v) /\ UNCHANGED <<mark, input, snap>>
    \/ CancelMeasurement /\ UNCHANGED <<mark, input, snap>>
    \/ \E i \in 0..(MaxActions - 1) : RemoveLineAt(i) /\ UNCHANGED <<mark, input, snap>>
    \/ \E i \in 0..(MaxActions - 1) : RemoveRectAt(i) /\ UNCHANGED <<mark, input, snap>>
    \/ ClearAll /\ UNCHANGED <<mark, input, snap>>

Spec == Init /\ [][Next]_vars

\* ---- the history driven with arbitrary actions, the mark kept

\* Actions pushed onto the log: two lines, a rectangle whose second corner is
\* left of the first, removals (in range or not when they are replayed), a
\* calibration and its clearing.
LogActions ==
    {AddLine(NewMeasurement(Pos2(0, 0), Pos2(5 * Scale, 0))),
     AddLine(NewMeasurement(Pos2(0, 0), Pos2(0, 8 * Scale))),
     AddRect(NewRectangleMeasurement(Pos2(3 * Scale, 0), Pos2(0, 4 * Scale))),
     RemoveLine(0), RemoveLine(1), RemoveRect(0),
     SetCalibration(Some(NewCalibration(6 * Scale, "mm"))),
     SetCalibration(None)}

\* self.history.push_action(action); self.rebuild_from_history();
HPush(action) ==
    /\ history.cursor < MaxLog
    /\ PushAndRebuild("push", action)
    /\ mark' = Snapshot(history', Derived', GoneBy(history, action))
    /\ UNCHANGED <<input, snap>>
    /\ UNCHANGED <<image_texture, measurement_state, measurement_mode,
                   calibration_state, is_calibrating, length_snap_multiple>>

HUndo ==
    /\ DoUndo("undo")
    /\ mark' = IF last'.ret THEN MarkUndo(history, Derived) ELSE mark
    /\ UNCHANGED <<input, snap>>

HRedo ==
    /\ DoRedo("redo")
    /\ mark' = IF last'.ret THEN MarkRedo(history', Derived') ELSE mark
    /\ UNCHANGED <<input, snap>>

HClearAll ==
    /\ ClearAll
    /\ mark' = Snapshot(history', Derived', {})
    /\ UNCHANGED <<input, snap>>

NextHistory ==
    \/ \E a \in LogActions : HPush(a)
    \/ HUndo
    \/ HRedo
    \/ HClearAll

SpecHistory == Init /\ [][NextHistory]_vars

\* ---- the two capture machines driven with richer events, the input kept

\* Image points of a click: the origin, and a point 4.6 degrees off the x
\* axis at a distance that is not a whole number of pixels.
CapturePoints == {Pos2(0, 0), Pos2(12 * Scale + 4, 1 * Scale)}

\* Texts of the real-distance field and of the unit field.
CaptureInputs == CalibrationInputs \cup {"4"}
CaptureUnits == {"mm", "cm"}

CLoadImage ==
    /\ LoadImage
    /\ input' = Event("load_image")
    /\ UNCHANGED <<mark, snap>>

CLoadImageFailed ==
    /\ LoadImageFailed
    /\ input' = Event("load_failed")
    /\ UNCHANGED <<mark, snap>>

\* handle_canvas_click: the canvas takes clicks once an image is shown.
CClick(image_pos, is_ctrl_pressed) ==
    /\ \/ CalibrationClick(image_pos, is_ctrl_pressed)
       \/ FirstClick(image_pos)
       \/ history.cursor < MaxCaptures /\ SecondClick(image_pos, is_ctrl_pressed)
    /\ input' = Given("click", image_pos, is_ctrl_pressed, "", "")
    /\ UNCHANGED <<mark, snap>>

CToggleCalibration ==
    /\ ToggleCalibration
    /\ input' = Event("toggle_calibration")
    /\ UNCHANGED <<mark, snap>>

CSubmitCalibration(calibration_input, calibration_unit) ==
    /\ history.cursor < MaxCaptures
    /\ SubmitCalibration(calibration_input, calibration_unit)
    /\ input' = Given("submit", Pos2(0, 0), FALSE, calibration_input,
                      calibration_unit)
    /\ UNCHANGED <<mark, snap>>

CSetMode(mode) ==
    /\ SetMode(mode)
    /\ input' = Event("set_mode")
    /\ UNCHANGED <<mark, snap>>

CSetLengthSnap(multiple) ==
    /\ SetLengthSnap(multiple)
    /\ input' = Event("set_length_snap")
    /\ UNCHANGED <<mark, snap>>

CCancelMeasurement ==
    /\ CancelMeasurement
    /\ input' = Event("cancel")
    /\ UNCHANGED <<mark, snap>>

NextCapture ==
    \/ CLoadImage
    \/ CLoadImageFailed
    \/ \E p \in CapturePoints, ctrl \in BOOLEAN : CClick(p, ctrl)
    \/ CToggleCalibration
    \/ \E t \in CaptureInputs, u \in CaptureUnits : CSubmitCalibration(t, u)
    \/ \E m \in {"Line", "Rectangle"} : CSetMode(m)
    \/ \E v \in SnapMultiples : CSetLengthSnap(v)
    \/ CCancelMeasurement

SpecCapture == Init /\ [][NextCapture]_vars

\* ---- the snapping functions applied to drawn arguments

\* Start points, and the x and y distances of the end point from the start
\* point (1/Scale pixels): 6/80 is inside the 5 degree window, 7/80 just
\* outside; 4 pixels round to no multiple of 10 pixels.
SnapStarts == {Pos2(0, 0), Pos2(100 * Scale, 100 * Scale)}
SnapDeltas ==
    {0 - 80 * Scale, 0 - 43 * Scale, 0 - 7 * Scale, 0 - 6 * Scale, 0,
     4 * Scale, 6 * Scale, 7 * Scale, 43 * Scale, 80 * Scale}

\* Two end points a few steps of the grid away from the origin.
SnapNearEnds == {Pos2(12, 1), Pos2(1, 12)}

\* The multiple: negative, zero, one pixel, ten pixels.
SnapArgMultiples == {0 - 1 * Scale, 0, 1 * Scale, 10 * Scale}

\* Lengths: zero, below, at and above half of ten pixels, and 43 pixels.
SnapLengths == {0, 4 * Scale, 5 * Scale, 15 * Scale, 43 * Scale}

SnapEnds(start) ==
    {Pos2(start.x + dx, start.y + dy) : dx \in SnapDeltas, dy \in SnapDeltas}
        \cup (IF start = Pos2(0, 0) THEN SnapNearEnds ELSE {})

InitSnap ==
    /\ image_texture = FALSE
    /\ history = EmptyHistory
    /\ measurements = <<>>
    /\ rectangle_measurements = <<>>
    /\ calibration = None
    /\ measurement_state = Idle
    /\ measurement_mode = "Line"
    /\ calibration_state = Idle
    /\ is_calibrating = FALSE
    /\ length_snap_multiple = 1 * Scale
    /\ last = Ran("new", TRUE)
    /\ mark = Snapshot(EmptyHistory, EmptyState, {})
    /\ input = NoInput
    /\ \E start \in SnapStarts :
          \E end \in SnapEnds(start), multiple \in SnapArgMultiples,
             length \in SnapLengths :
              snap = Args(start, end, multiple, length)

Returned(fn, pos, len) ==
    /\ snap.fn = "none"
    /\ snap' = [snap EXCEPT !.fn = fn, !.pos = pos, !.len = len]
    /\ UNCHANGED <<app_vars, last, mark, input>>

CallSnapToAngle ==
    Returned("snap_to_angle", snap_to_angle(snap.start, snap.end), snap.len)

CallSnapLengthToMultiple ==
    Returned("snap_length_to_multiple", snap.pos,
             snap_length_to_multiple(snap.length, snap.multiple))

CallSnapLineLength ==
    Returned("snap_line_length",
             snap_line_length(snap.start, snap.end, snap.multiple), snap.len)

CallSnapRectDimensions ==
    Returned("snap_rect_dimensions",
             snap_rect_dimensions(snap.start, snap.end, snap.multiple), snap.len)

\* The Line branch of handle_canvas_click with Ctrl pressed: the angle snap,
\* then the length snap.
CallAngleThenLength ==
    Returned("angle_then_length",
             snap_line_length(snap.start, snap_to_angle(snap.start, snap.end),
                              snap.multiple),
             snap.len)

NextSnap ==
    \/ CallSnapToAngle
    \/ CallSnapLengthToMultiple
    \/ CallSnapLineLength
    \/ CallSnapRectDimensions
    \/ CallAngleThenLength

SpecSnap == InitSnap /\ [][NextSnap]_vars

\* ------------------------------------------------------------ properties

Log == history.actions

\* seq is an initial part of other.
IsPrefix(seq, other) ==
    /\ Len(seq) <= Len(other)
    /\ \A k \in 1..Len(seq) : seq[k] = other[k]

\* C1: push_action(a) leaves actions equal to the old actions[0..cursor]
\* followed by a, and sets cursor to the old cursor + 1, which is the new
\* length of actions; the entries below the old cursor are unchanged.
C1_PushAppendsAfterTruncation ==
    [][IsPush(last') =>
          /\ Log' = Append(SubSeq(Log, 1, history.cursor), last'.pushed.val)
          /\ history'.cursor = history.cursor + 1
          /\ history'.cursor = Len(Log')
          /\ \A k \in 1..history.cursor : Log'[k] = Log[k]]_vars

\* A push found a redo tail and at least two entries below the cursor.
C1_Witness ==
    /\ IsPush(last)
    /\ last.tail > 0
    /\ history.cursor >= 3

\* C2: in every reachable state 0 <= cursor <= actions.len().
C2_CursorInRange ==
    /\ 0 <= history.cursor
    /\ history.cursor <= Len(Log)

\* The cursor is strictly inside the log, after an undo.
C2_Witness ==
    /\ last.op = "undo"
    /\ last.ret
    /\ 0 < history.cursor
    /\ history.cursor < Len(Log)

\* C3: right after any handler that called push_action, also one that found
\* a redo tail, can_redo() is false and can_undo() is true.
C3_NoRedoAfterPush ==
    IsPush(last) => ~can_redo(history) /\ can_undo(history)

\* A handler other than a canvas click pushed onto a log with a redo tail.
C3_Witness ==
    /\ IsPush(last)
    /\ last.tail > 0
    /\ last.op \in {"remove_line", "remove_rect", "set_calibration",
                    "clear_calibration"}

\* C4: k successful undos followed by k redos give back the history (actions
\* and cursor) and the derived state (lines, rectangles, calibration) found
\* before the undos.
C4_UndoRedoRoundTrip ==
    (mark.undos > 0 /\ mark.redos = mark.undos) =>
        /\ history = mark.h
        /\ Derived = mark.st

\* Two undos and two redos over a log with a removal and a calibration.
C4_Witness ==
    /\ mark.undos >= 2
    /\ mark.redos = mark.undos
    /\ \E k \in 1..Len(Log) : Log[k].tag = "RemoveLine"
    /\ \E k \in 1..Len(Log) : Log[k].tag = "SetCalibration"

\* C5: after every handler the exposed measurements, rectangle_measurements
\* and calibration equal rebuild_state(history), the fold of
\* actions[0..cursor].
C5_DerivedIsReplay ==
    Derived = rebuild_state(history)

\* Clear all ran with a calibration set: the lists were emptied without a
\* rebuild.
C5_Witness ==
    /\ last.op = "clear_all"
    /\ calibration.tag = "Some"
    /\ history.cursor = 1

\* C6: the derived state depends on actions[0..cursor] only: it is the
\* replay of that prefix taken as a whole log, whatever the redo tail holds
\* and whatever pushes, undos and redos led there.
C6_DependsOnPrefixOnly ==
    LET prefix == SubSeq(Log, 1, history.cursor)
        alone == [actions |-> prefix, cursor |-> Len(prefix)]
    IN  /\ rebuild_state(history) = rebuild_state(alone)
        /\ Derived = rebuild_state(alone)

\* One line is applied, and the redo tail holds its removal and a
\* calibration, reached by two undos.
C6_Witness ==
    /\ history.cursor = 1
    /\ Len(Log) = 3
    /\ Log[1].tag = "AddLine"
    /\ Log[2].tag = "RemoveLine"
    /\ Log[2].index = 0
    /\ Log[3].tag = "SetCalibration"
    /\ Log[3].cal.tag = "Some"
    /\ last.op = "undo"

\* C7: undo() at cursor 0 and redo() at cursor = actions.len() return false
\* and change nothing; otherwise they return true and move the cursor by
\* exactly one.
C7_UndoRedoAtBoundary ==
    [][/\ last'.op = "undo" =>
            IF history.cursor = 0
            THEN ~last'.ret /\ history' = history /\ Derived' = Derived
            ELSE last'.ret /\ history'.cursor = history.cursor - 1
       /\ last'.op = "redo" =>
            IF history.cursor = Len(Log)
            THEN ~last'.ret /\ history' = history /\ Derived' = Derived
            ELSE last'.ret /\ history'.cursor = history.cursor + 1]_vars

\* redo() was refused at the end of a log that is not empty.
C7_Witness ==
    /\ last.op = "redo"
    /\ ~last.ret
    /\ Len(Log) > 0
    /\ history.cursor = Len(Log)

\* C8: undo() and redo() leave actions unchanged; an entry is removed only
\* by the truncation of push_action, by clear all or by an image load; and
\* push_action keeps every entry below the cursor as it was.
C8_OnlyPushTruncates ==
    [][/\ last'.op \in {"undo", "redo"} => Log' = Log
       /\ ~IsPrefix(Log, Log') =>
            \/ IsPush(last') /\ last'.tail > 0
            \/ last'.op = "clear_all"
            \/ last'.op = "load_image" /\ last'.ret
       /\ IsPush(last') => IsPrefix(SubSeq(Log, 1, history.cursor), Log')]_vars

\* An undo moved the cursor and the undone entry is still in the log.
C8_Witness ==
    /\ last.op = "undo"
    /\ last.ret
    /\ history.cursor + 2 <= Len(Log)

\* C9: an undo right after a push gives back the derived state found before
\* the push; over a log of AddLine entries the line list is the first
\* `cursor` pushed measurements in push order, and a redo of an AddLine
\* appends its measurement at the end of the list.
C9_UndoRestoresRedoReappends ==
    [][/\ (IsPush(last) /\ last'.op = "undo") =>
            last'.ret /\ Some(Derived') = last.before
       /\ (\A k \in 1..Len(Log') : Log'[k].tag = "AddLine") =>
            measurements' = [k \in 1..history'.cursor |-> Log'[k].m]
       /\ (last'.op = "redo" /\ last'.ret
             /\ Log'[history'.cursor].tag = "AddLine") =>
            measurements' = Append(measurements, Log'[history'.cursor].m)]_vars

\* Three lines were pushed, two undone, and one redo put the second line
\* back at index 1.
C9_Witness ==
    /\ last.op = "redo"
    /\ last.ret
    /\ Len(Log) = 3
    /\ \A k \in 1..Len(Log) : Log[k].tag = "AddLine"
    /\ Log[1] # Log[2]
    /\ history.cursor = 2
    /\ measurements = <<Log[1].m, Log[2].m>>

\* C10: a push of AddLine(m) onto a log with a redo tail appends m to the
\* line list, and no undo or redo after it brings back a measurement that
\* only the discarded tail held.
C10_DiscardedTailIsGone ==
    [][/\ (IsPush(last') /\ last'.pushed.val.tag = "AddLine"
             /\ last'.tail > 0) =>
            measurements' = Append(measurements, last'.pushed.val.m)
       /\ \A m \in mark'.gone : m \notin Range(measurements')
       /\ \A m \in mark'.gone :
            \A k \in 0..Len(Log') : m \notin Range(Replay(Log', k).measurements)]_vars

\* A line was discarded with the tail, and undos and a redo followed.
C10_Witness ==
    /\ mark.gone # {}
    /\ mark.undos >= 2
    /\ mark.redos >= 1
    /\ last.op = "redo"
    /\ last.ret

\* C11: in the replay, RemoveLine(i) with i below the length of the line list
\* removes the element at index i and keeps the others in order, and with i
\* at or above the length leaves the list as it is; RemoveRect(i) does the
\* same on the rectangles; neither touches the other list or the
\* calibration; after a removal out of range the replay goes on with the
\* next action, and the removal stays in the log.
WithoutIndex(before, after, index) ==
    IF index < Len(before)
    THEN /\ Len(after) = Len(before) - 1
         /\ \A j \in 1..Len(after) :
               after[j] = before[IF j <= index THEN j ELSE j + 1]
    ELSE after = before

C11_RemovalInReplay ==
    /\ \A k \in 1..history.cursor :
          LET before == Replay(Log, k - 1)
              after == Replay(Log, k)
          IN  /\ Log[k].tag = "RemoveLine" =>
                    /\ WithoutIndex(before.measurements, after.measurements,
                                    Log[k].index)
                    /\ after.rectangle_measurements = before.rectangle_measurements
                    /\ after.calibration = before.calibration
              /\ Log[k].tag = "RemoveRect" =>
                    /\ WithoutIndex(before.rectangle_measurements,
                                    after.rectangle_measurements, Log[k].index)
                    /\ after.measurements = before.measurements
                    /\ after.calibration = before.calibration
              /\ (k > 1 /\ Log[k].tag = "AddLine"
                    /\ Log[k - 1].tag \in {"RemoveLine", "RemoveRect"}) =>
                    after.measurements = Append(before.measurements, Log[k].m)
    /\ (IsPush(last) /\ last.pushed.val.tag \in {"RemoveLine", "RemoveRect"}) =>
          /\ Log[history.cursor] = last.pushed.val
          /\ Derived = ApplyAction(last.before.val, last.pushed.val)
          /\ (last.pushed.val.tag = "RemoveLine"
                /\ last.pushed.val.index >= Len(last.before.val.measurements)) =>
                Some(Derived) = last.before
    /\ Derived = Replay(Log, history.cursor)

\* The first of two different lines was removed: the second is what is left.
C11_Witness ==
    /\ history.cursor = 3
    /\ Log[1].tag = "AddLine"
    /\ Log[2].tag = "AddLine"
    /\ Log[1] # Log[2]
    /\ Log[3] = RemoveLine(0)
    /\ measurements = <<Log[2].m>>

\* A removal out of range was replayed, and the line pushed after it is in
\* the list.
C11_StaleWitness ==
    /\ history.cursor = 3
    /\ Log[1].tag = "AddLine"
    /\ Log[2] = RemoveLine(1)
    /\ Log[3].tag = "AddLine"
    /\ measurements = <<Log[1].m, Log[3].m>>

\* C12: the derived calibration is the payload of the last SetCalibration
\* among actions[0..cursor] (None included), and None when there is no
\* SetCalibration there; the other four actions leave the calibration alone.
LastCalibration(actions, n) ==
    LET sets == {k \in 1..n : actions[k].tag = "SetCalibration"}
    IN  IF sets = {} THEN None
        ELSE actions[CHOOSE k \in sets : \A j \in sets : j <= k].cal

C12_CalibrationIsLastSet ==
    /\ calibration = LastCalibration(Log, history.cursor)
    /\ \A k \in 1..Len(Log) :
          /\ Replay(Log, k).calibration = LastCalibration(Log, k)
          /\ Log[k].tag # "SetCalibration" =>
                Replay(Log, k).calibration = Replay(Log, k - 1).calibration

\* The calibration was set and then cleared with the button.
C12_Witness ==
    /\ last.op = "clear_calibration"
    /\ history.cursor = 2
    /\ Log[1].tag = "SetCalibration"
    /\ Log[1].cal.tag = "Some"
    /\ Log[2] = SetCalibration(None)
    /\ calibration = None

\* C13: every Calibration in a SetCalibration(Some(..)) entry of the log, and
\* the derived calibration when there is one, has pixels_per_unit > 0,
\* whatever the calibration clicks were (the second on the point of the
\* first, or a distance that length-snaps to 0) and whatever submission was
\* accepted.
C13_PixelsPerUnitPositive ==
    /\ \A k \in 1..Len(Log) :
          (Log[k].tag = "SetCalibration" /\ Log[k].cal.tag = "Some") =>
              Log[k].cal.val.pixels_per_unit > 0
    /\ calibration.tag = "Some" => calibration.val.pixels_per_unit > 0

\* ---- the capture machines

\* The texts that are a positive finite number, with their value.
PositiveFinite == {<<"2", 2>>, <<"4", 4>>}

IsPositiveFinite(text) == \E tv \in PositiveFinite : tv[1] = text

\* The step is a click on the canvas; the step is a submission of the
\* calibration form while it waits for its input.
Clicked == input'.kind = "click"
Submitted == input'.kind = "submit" /\ is_calibrating
                 /\ calibration_state.tag = "WaitingForInput"

\* No action is emitted: the history and the derived state stay.
NothingEmitted == history' = history /\ Derived' = Derived

\* Exactly one action is appended after the applied ones, and it is a.
Emitted(a) ==
    /\ Log' = Append(SubSeq(Log, 1, history.cursor), a)
    /\ history'.cursor = history.cursor + 1
    /\ history'.cursor = Len(Log')

\* C14: in WaitingForInput{distance_px}, a submission whose real distance is
\* a positive finite number appends exactly one action,
\* SetCalibration(Some(c)) with c.pixels_per_unit = distance_px / real
\* distance (to the nearest unit) and c.unit_name the submitted unit, sets
\* the calibration state to Idle and is_calibrating to false, and c is the
\* derived calibration.
C14_AcceptedSubmission ==
    [][\A tv \in PositiveFinite :
          (Submitted /\ input'.text = tv[1]) =>
              \E ppu \in 0..calibration_state.distance_px :
                  /\ 2 * Abs(ppu * tv[2] - calibration_state.distance_px) <= tv[2]
                  /\ Emitted(SetCalibration(Some(
                         [pixels_per_unit |-> ppu, unit_name |-> input'.unit])))
                  /\ calibration' = Some(
                         [pixels_per_unit |-> ppu, unit_name |-> input'.unit])
                  /\ calibration_state' = Idle
                  /\ is_calibrating' = FALSE]_vars

\* "4" and "cm" were submitted for a segment that is not of length 0.
C14_Witness ==
    /\ input.kind = "submit"
    /\ input.text = "4"
    /\ input.unit = "cm"
    /\ input.cal = "WaitingForInput"
    /\ ~is_calibrating
    /\ calibration_state = Idle
    /\ calibration.tag = "Some"
    /\ calibration.val.pixels_per_unit > 0
    /\ calibration.val.unit_name = "cm"
    /\ Log[history.cursor] = SetCalibration(calibration)

\* C15: in WaitingForInput a submission is accepted only if the real
\* distance is a positive finite number; for every other text (not a
\* number, zero, negative, NaN, infinity) the calibration state stays
\* WaitingForInput with the same start, end and distance_px, is_calibrating
\* stays true, and the history and the derived state are unchanged.
C15_RejectedSubmission ==
    [][(Submitted /\ ~IsPositiveFinite(input'.text)) =>
          /\ calibration_state' = calibration_state
          /\ is_calibrating' = TRUE
          /\ NothingEmitted]_vars

\* C16: when not calibrating and the measurement state is Idle, a click at p
\* sets the measurement state to FirstPointSelected(p) and leaves the
\* history and the derived state unchanged.
C16_FirstClick ==
    [][(Clicked /\ ~is_calibrating /\ measurement_state.tag = "Idle") =>
          /\ measurement_state' = FirstPointSelected(input'.click)
          /\ NothingEmitted]_vars

\* A first click off the origin, with an action in the log.
C16_Witness ==
    /\ input.kind = "click"
    /\ ~input.calibrating
    /\ input.meas = "Idle"
    /\ measurement_state = FirstPointSelected(input.click)
    /\ input.click # Pos2(0, 0)
    /\ history.cursor > 0

\* C17: when not calibrating and the measurement state is
\* FirstPointSelected(start), a click at any p (p = start too) appends
\* exactly one action, AddLine if the mode at this click is Line and AddRect
\* if it is Rectangle, whose first point is start, and the measurement state
\* is Idle afterwards; a click in Idle selects a first point, so the clicks
\* alternate.
C17_SecondClick ==
    [][(Clicked /\ ~is_calibrating) =>
          /\ measurement_state.tag = "Idle" =>
                measurement_state'.tag = "FirstPointSelected"
          /\ measurement_state.tag = "FirstPointSelected" =>
                /\ measurement_state' = Idle
                /\ Emitted(Log'[Len(Log')])
                /\ IF measurement_mode = "Line"
                   THEN /\ Log'[Len(Log')].tag = "AddLine"
                        /\ Log'[Len(Log')].m.start = measurement_state.start
                   ELSE /\ Log'[Len(Log')].tag = "AddRect"
                        /\ Log'[Len(Log')].r.corner1 = measurement_state.start]_vars

\* A second click on the start point, in rectangle mode.
C17_Witness ==
    /\ input.kind = "click"
    /\ ~input.calibrating
    /\ input.meas = "FirstPointSelected"
    /\ measurement_state = Idle
    /\ Log[history.cursor].tag = "AddRect"
    /\ Log[history.cursor].r.corner1 = input.click
    /\ Log[history.cursor].r.corner2 = input.click

\* C18: cancel in FirstPointSelected sets the measurement state to Idle,
\* emits no action and leaves the history, the derived state and the
\* calibration capture as they were; the click after it, when not
\* calibrating, selects its own point as the start.
C18_Cancel ==
    [][/\ input'.kind = "cancel" =>
            /\ measurement_state.tag = "FirstPointSelected"
            /\ measurement_state' = Idle
            /\ NothingEmitted
            /\ calibration_state' = calibration_state
            /\ is_calibrating' = is_calibrating
       /\ (input.kind = "cancel" /\ Clicked /\ ~is_calibrating) =>
            measurement_state' = FirstPointSelected(input'.click)]_vars

\* Cancel ran while the calibration form waited for its input, with an
\* action in the log.
C18_Witness ==
    /\ input.kind = "cancel"
    /\ input.meas = "FirstPointSelected"
    /\ measurement_state = Idle
    /\ is_calibrating
    /\ calibration_state.tag = "WaitingForInput"
    /\ history.cursor > 0

\* C19: while calibrating, a click at p in Idle moves to
\* FirstPointSelected(p); a click at p in FirstPointSelected(start) moves to
\* WaitingForInput{start, end, distance_px} with end the end point of the
\* Line measurement path (angle snap with Ctrl, then length snap) and
\* distance_px = |start - end|; neither appends an action.
C19_CalibrationClicks ==
    [][(Clicked /\ is_calibrating) =>
          /\ NothingEmitted
          /\ calibration_state.tag = "Idle" =>
                calibration_state' = FirstPointSelected(input'.click)
          /\ calibration_state.tag = "FirstPointSelected" =>
                LET start == calibration_state.start
                    line == NewMeasurement(start,
                                LineEnd(start, input'.click, input'.ctrl))
                IN  /\ calibration_state'.tag = "WaitingForInput"
                    /\ calibration_state'.start = start
                    /\ calibration_state'.end = line.end
                    /\ calibration_state'.distance_px = line.distance_px
                    /\ calibration_state'.distance_px =
                          Distance(start, calibration_state'.end)]_vars

\* A second calibration click with Ctrl and a length snap: both moved the
\* end point.
C19_Witness ==
    /\ input.kind = "click"
    /\ input.calibrating
    /\ input.cal = "FirstPointSelected"
    /\ input.ctrl
    /\ length_snap_multiple > 0
    /\ calibration_state.tag = "WaitingForInput"
    /\ calibration_state.end # input.click
    /\ calibration_state.end # snap_to_angle(calibration_state.start, input.click)
    /\ calibration_state.distance_px > 0

\* C20: in calibration state WaitingForInput, a click, and so any number of
\* them, leaves the calibration state, the measurement state, the history
\* and the derived state unchanged.
C20_ClicksWhileWaiting ==
    [][(Clicked /\ is_calibrating
          /\ calibration_state.tag = "WaitingForInput") =>
          /\ calibration_state' = calibration_state
          /\ measurement_state' = measurement_state
          /\ is_calibrating' = is_calibrating
          /\ NothingEmitted]_vars

\* A click off the origin was ignored while a first measurement point was
\* selected and the log held an action.
C20_Witness ==
    /\ input.kind = "click"
    /\ input.calibrating
    /\ input.cal = "WaitingForInput"
    /\ input.click # Pos2(0, 0)
    /\ calibration_state.tag = "WaitingForInput"
    /\ measurement_state.tag = "FirstPointSelected"
    /\ history.cursor > 0

\* C21: toggling calibration mode, in calibration state Idle,
\* FirstPointSelected or WaitingForInput, sets the calibration state to Idle
\* (the points selected so far are dropped), appends no action and leaves
\* the history and the derived state unchanged.
C21_ToggleCalibration ==
    [][input'.kind = "toggle_calibration" =>
          /\ calibration_state' = Idle
          /\ is_calibrating' = ~is_calibrating
          /\ measurement_state' = measurement_state
          /\ NothingEmitted]_vars

\* Calibration was cancelled while the form waited for its input, with an
\* action in the log.
C21_Witness ==
    /\ input.kind = "toggle_calibration"
    /\ input.calibrating
    /\ input.cal = "WaitingForInput"
    /\ ~is_calibrating
    /\ calibration_state = Idle
    /\ history.cursor > 0

\* C22: clear all, which calls reset_with_calibration with the calibration in
\* force, leaves actions empty and cursor 0 when there is none, and actions
\* equal to the single entry SetCalibration(Some(c)) and cursor 1 when it is
\* Some(c); either way can_redo() is false, rebuild_state gives no line, no
\* rectangle and that calibration, and the calibration shown is the one
\* found.
C22_ResetKeepsCalibration ==
    [][last'.op = "clear_all" =>
          /\ calibration.tag = "None" =>
                Log' = <<>> /\ history'.cursor = 0
          /\ calibration.tag = "Some" =>
                Log' = <<SetCalibration(Some(calibration.val))>>
                    /\ history'.cursor = 1
          /\ ~can_redo(history')
          /\ rebuild_state(history') =
                [measurements |-> <<>>, rectangle_measurements |-> <<>>,
                 calibration |-> calibration]
          /\ calibration' = calibration
          /\ measurements' = <<>>
          /\ rectangle_measurements' = <<>>]_vars

\* Clear all ran with a calibration in force: the log is that calibration
\* alone.
C22_Witness ==
    /\ last.op = "clear_all"
    /\ calibration.tag = "Some"
    /\ Log = <<SetCalibration(calibration)>>
    /\ history.cursor = 1
    /\ measurements = <<>>
    /\ rectangle_measurements = <<>>

\* Clear all ran with no calibration: the log is empty.
C22_NoneWitness ==
    /\ last.op = "clear_all"
    /\ calibration.tag = "None"
    /\ Log = <<>>

\* C23: after an image load that succeeded the history is empty with cursor
\* 0 (can_undo() and can_redo() false), both lists are empty, the calibration
\* is None, both capture states are Idle and is_calibrating is false,
\* whatever the state was; a load that failed leaves all of these unchanged.
C23_ImageLoadResets ==
    [][/\ input'.kind = "load_image" =>
            /\ history' = [actions |-> <<>>, cursor |-> 0]
            /\ ~can_undo(history')
            /\ ~can_redo(history')
            /\ measurements' = <<>>
            /\ rectangle_measurements' = <<>>
            /\ calibration' = None
            /\ measurement_state' = Idle
            /\ calibration_state' = Idle
            /\ is_calibrating' = FALSE
       /\ input'.kind = "load_failed" =>
            /\ NothingEmitted
            /\ measurement_state' = measurement_state
            /\ calibration_state' = calibration_state
            /\ is_calibrating' = is_calibrating
            /\ image_texture' = image_texture]_vars

\* An image was loaded while a first point was selected and the calibration
\* form waited for its input.
C23_Witness ==
    /\ input.kind = "load_image"
    /\ input.calibrating
    /\ input.cal = "WaitingForInput"
    /\ input.meas = "FirstPointSelected"
    /\ history.cursor = 0
    /\ measurement_state = Idle
    /\ calibration_state = Idle
    /\ ~is_calibrating

\* A load failed while the calibration form waited for its input, with an
\* action in the log.
C23_FailedWitness ==
    /\ input.kind = "load_failed"
    /\ calibration_state.tag = "WaitingForInput"
    /\ is_calibrating
    /\ history.cursor > 0

\* ---- snapping

\* The four axis directions, and: the vector (dx, dy) is within 5 degrees of
\* the direction u (its part along u is positive and its part across u is at
\* most tan(5 degrees) times that).
Axes == {<<1, 0>>, <<0, 1>>, <<0 - 1, 0>>, <<0, 0 - 1>>}

NearAxis(dx, dy, u) ==
    LET along == dx * u[1] + dy * u[2]
        across == Abs(dx * u[2] - dy * u[1])
    IN  /\ along > 0
        /\ across * TanTolDen <= TanTolNum * along

\* length is the multiple of `multiple` nearest to wanted, the upper one of
\* two that are equally near.
NearestMultiple(length, wanted, multiple) ==
    /\ length >= 0
    /\ length % multiple = 0
    /\ 2 * Abs(length - wanted) <= multiple
    /\ 2 * Abs(length - wanted) = multiple => length > wanted

\* The step is the second click of a measurement.
SecondClicked ==
    Clicked /\ ~is_calibrating /\ measurement_state.tag = "FirstPointSelected"

\* C24: in Line mode the committed end point is
\* snap_line_length(start, t, multiple) with t = snap_to_angle(start, p) when
\* Ctrl is pressed and t = p otherwise; with Ctrl pressed, p within 5 degrees
\* of an axis and multiple > 0, the committed line lies on that axis (to the
\* resolution of the model) and its distance_px is a multiple of `multiple`.
C24_LineEndPoint ==
    [][(SecondClicked /\ measurement_mode = "Line") =>
          LET start == measurement_state.start
              p == input'.click
              t == IF input'.ctrl THEN snap_to_angle(start, p) ELSE p
              m == Log'[Len(Log')].m
          IN  /\ Log'[Len(Log')].tag = "AddLine"
              /\ m.start = start
              /\ m.end = snap_line_length(start, t, length_snap_multiple)
              /\ \A u \in Axes :
                    (input'.ctrl /\ length_snap_multiple > 0
                       /\ NearAxis(p.x - start.x, p.y - start.y, u)) =>
                        /\ m.end.x = start.x + m.distance_px * u[1]
                        /\ m.end.y = start.y + m.distance_px * u[2]
                        /\ m.distance_px % length_snap_multiple = 0]_vars

\* A line was committed with Ctrl and a length snap: it is on the axis, off
\* the clicked point, and shorter than the angle snap alone left it.
C24_Witness ==
    /\ input.kind = "click"
    /\ input.meas = "FirstPointSelected"
    /\ ~input.calibrating
    /\ input.ctrl
    /\ length_snap_multiple > 0
    /\ last.op = "add_line"
    /\ Log[history.cursor].m.end.y = Log[history.cursor].m.start.y
    /\ Log[history.cursor].m.end # input.click
    /\ Log[history.cursor].m.end #
          snap_to_angle(Log[history.cursor].m.start, input.click)
    /\ Log[history.cursor].m.distance_px > 0

\* C26: in Rectangle mode the committed second corner is
\* snap_rect_dimensions(start, p, multiple), with Ctrl pressed or not;
\* it is p when multiple <= 0, and otherwise |dx| and |dy| are each rounded
\* to the nearest multiple and each axis keeps the sign of its delta, so
\* width_px and height_px are multiples of `multiple`.
C26_RectCorner ==
    [][(SecondClicked /\ measurement_mode = "Rectangle") =>
          LET start == measurement_state.start
              p == input'.click
              r == Log'[Len(Log')].r
              multiple == length_snap_multiple
          IN  /\ Log'[Len(Log')].tag = "AddRect"
              /\ r.corner1 = start
              /\ r.corner2 = snap_rect_dimensions(start, p, multiple)
              /\ multiple <= 0 => r.corner2 = p
              /\ multiple > 0 =>
                    /\ NearestMultiple(r.width_px, Abs(p.x - start.x), multiple)
                    /\ NearestMultiple(r.height_px, Abs(p.y - start.y), multiple)
                    /\ r.corner2.x - start.x = r.width_px * Signum(p.x - start.x)
                    /\ r.corner2.y - start.y = r.height_px * Signum(p.y - start.y)]_vars

\* A rectangle was committed with Ctrl and a length snap towards smaller
\* coordinates: the width was rounded and the corner is not on the axis.
C26_Witness ==
    /\ input.kind = "click"
    /\ input.meas = "FirstPointSelected"
    /\ ~input.calibrating
    /\ input.ctrl
    /\ length_snap_multiple > 0
    /\ last.op = "add_rect"
    /\ Log[history.cursor].r.corner2.x < Log[history.cursor].r.corner1.x
    /\ Log[history.cursor].r.corner2.y < Log[history.cursor].r.corner1.y
    /\ Log[history.cursor].r.corner2 # input.click
    /\ Log[history.cursor].r.width_px > Log[history.cursor].r.height_px

\* The other order: the length snap, then the angle snap.
LengthThenAngle(start, end, multiple) ==
    snap_to_angle(start, snap_line_length(start, end, multiple))

C27_SnapLength ==
    snap.fn = "snap_length_to_multiple" =>
        /\ snap.multiple > 0 =>
              /\ NearestMultiple(snap.len, snap.length, snap.multiple)
              /\ \E k \in 0..(snap.length + snap.multiple) :
                    snap.len = k * snap.multiple
        /\ snap.multiple <= 0 => snap.len = snap.length

\* A length half way between two multiples went up.
C27_Witness ==
    /\ snap.fn = "snap_length_to_multiple"
    /\ snap.multiple > 0
    /\ 2 * snap.length = snap.multiple
    /\ snap.len = snap.multiple

\* C28: for |end - start| >= 0.001, when end - start is within 5 degrees of
\* an axis direction snap_to_angle returns the point on that axis at the
\* distance of end from start, and when it is not, end; for
\* |end - start| < 0.001 it returns end.
C28_SnapToAngle ==
    snap.fn = "snap_to_angle" =>
        LET dx == snap.end.x - snap.start.x
            dy == snap.end.y - snap.start.y
            distance == Distance(snap.start, snap.end)
        IN  /\ \A u \in Axes :
                  NearAxis(dx, dy, u) =>
                      /\ snap.pos = Pos2(snap.start.x + distance * u[1],
                                         snap.start.y + distance * u[2])
                      /\ Distance(snap.start, snap.pos) = distance
            /\ (\A u \in Axes : ~NearAxis(dx, dy, u)) => snap.pos = snap.end
            /\ distance * 1000 < Scale => snap.pos = snap.end

\* A point below the negative x axis, within the window, went onto the axis.
C28_Witness ==
    /\ snap.fn = "snap_to_angle"
    /\ snap.end.x < snap.start.x
    /\ snap.end.y < snap.start.y
    /\ snap.pos.y = snap.start.y
    /\ snap.pos.x < snap.end.x

\* A point just outside the window stayed where it was.
C28_OutsideWitness ==
    /\ snap.fn = "snap_to_angle"
    /\ snap.end.x - snap.start.x = 80 * Scale
    /\ snap.end.y - snap.start.y = 7 * Scale
    /\ snap.pos = snap.end

\* The candidates that the angle of (dx, dy) is within 5 degrees of.
Matching(dx, dy) ==
    {i \in 1..Len(snap_angles) : WithinTolerance(dx, dy, snap_angles[i])}

\* C29: the angle of end - start is within 5 degrees of at most one of the
\* candidates 0, 90, 180, -180, -90, so that the point returned is the one of
\* the candidate that matches, in whatever order the candidates are tried.
C29_OneCandidate ==
    snap.fn = "snap_to_angle" =>
        LET dx == snap.end.x - snap.start.x
            dy == snap.end.y - snap.start.y
            distance == Distance(snap.start, snap.end)
        IN  /\ Cardinality(Matching(dx, dy)) <= 1
            /\ \A i \in Matching(dx, dy) :
                  distance * 1000 >= Scale =>
                      snap.pos = Pos2(snap.start.x + distance * CosOf(snap_angles[i]),
                                      snap.start.y + distance * SinOf(snap_angles[i]))

\* On the negative x axis itself the angle is 180: the candidate 180 matches
\* and -180 does not.
C29_Witness ==
    /\ snap.fn = "snap_to_angle"
    /\ snap.end.y = snap.start.y
    /\ snap.end.x < snap.start.x
    /\ Matching(snap.end.x - snap.start.x, snap.end.y - snap.start.y) = {3}
    /\ snap.pos = snap.end

\* C30: snap_line_length returns end when multiple <= 0 or
\* |end - start| < 0.001; otherwise the point on the ray from start through
\* end at the distance snap_length_to_multiple(|end - start|, multiple) from
\* start (to the resolution of the model), which is start when that length
\* is 0; start (100,100), end (143,100), multiple 10 give (140,100), 40
\* pixels from start.
C30_SnapLineLength ==
    snap.fn = "snap_line_length" =>
        LET dx == snap.end.x - snap.start.x
            dy == snap.end.y - snap.start.y
            ox == snap.pos.x - snap.start.x
            oy == snap.pos.y - snap.start.y
            distance == Distance(snap.start, snap.end)
            length == Distance(snap.start, snap.pos)
        IN  /\ (snap.multiple <= 0 \/ distance * 1000 < Scale) =>
                  snap.pos = snap.end
            /\ (snap.multiple > 0 /\ distance * 1000 >= Scale) =>
                  \E wanted \in 0..(distance + snap.multiple) :
                      /\ NearestMultiple(wanted, distance, snap.multiple)
                      /\ wanted = snap_length_to_multiple(distance, snap.multiple)
                      /\ wanted = 0 => snap.pos = snap.start
                      /\ Abs(length - wanted) <= 1
                      /\ dx * ox + dy * oy >= 0
                      /\ Abs(dx * oy - dy * ox) <= distance
                      /\ dy = 0 => (oy = 0 /\ ox = wanted * Signum(dx))
                      /\ dx = 0 => (ox = 0 /\ oy = wanted * Signum(dy))
            /\ (snap.start = Pos2(100 * Scale, 100 * Scale)
                   /\ snap.end = Pos2(143 * Scale, 100 * Scale)
                   /\ snap.multiple = 10 * Scale) =>
                  /\ snap.pos = Pos2(140 * Scale, 100 * Scale)
                  /\ length = 40 * Scale

\* The example: 43 pixels along x from (100,100) became 40.
C30_Witness ==
    /\ snap.fn = "snap_line_length"
    /\ snap.start = Pos2(100 * Scale, 100 * Scale)
    /\ snap.end = Pos2(143 * Scale, 100 * Scale)
    /\ snap.multiple = 10 * Scale
    /\ snap.pos = Pos2(140 * Scale, 100 * Scale)

\* A segment shorter than half the multiple collapsed onto its start point.
C30_ZeroWitness ==
    /\ snap.fn = "snap_line_length"
    /\ snap.multiple > 0
    /\ snap.end # snap.start
    /\ snap.pos = snap.start

\* The rectangles that the AddRect entries of a log add.
RectsOf(actions) ==
    {actions[k].r : k \in {n \in 1..Len(actions) : actions[n].tag = "AddRect"}}

\* C31: every rectangle of the derived list has width_px = |corner2.x -
\* corner1.x|, height_px = |corner2.y - corner1.y| and area_px = width_px *
\* height_px, none negative, whatever the order of its corners, and every
\* line of the derived list has distance_px = |end - start|; the elements
\* that undo, redo and removals leave in the lists are the records of the
\* log, with the cached fields they were created with.
C31_CachedFields ==
    /\ \A k \in 1..Len(rectangle_measurements) :
          LET r == rectangle_measurements[k]
          IN  /\ r.width_px = Abs(r.corner2.x - r.corner1.x)
              /\ r.height_px = Abs(r.corner2.y - r.corner1.y)
              /\ r.area_px = r.width_px * r.height_px
              /\ r.width_px >= 0 /\ r.height_px >= 0 /\ r.area_px >= 0
    /\ \A k \in 1..Len(measurements) :
          LET m == measurements[k]
          IN  /\ m.distance_px = Distance(m.start, m.end)
              /\ m.distance_px >= 0
    /\ Range(measurements) \subseteq LinesOf(SubSeq(Log, 1, history.cursor))
    /\ Range(rectangle_measurements) \subseteq
          RectsOf(SubSeq(Log, 1, history.cursor))

\* An undo left a line and a rectangle whose second corner is left of its
\* first.
C31_Witness ==
    /\ last.op = "undo" /\ last.ret
    /\ Len(measurements) = 1
    /\ Len(rectangle_measurements) = 1
    /\ rectangle_measurements[1].corner2.x < rectangle_measurements[1].corner1.x
    /\ rectangle_measurements[1].area_px = 12 * Scale * Scale

\* A removal took the first of two lines and left the second.
C31_RemovalWitness ==
    /\ history.cursor = 3
    /\ Log[3] = RemoveLine(0)
    /\ Len(measurements) = 1
    /\ measurements[1] = Log[2].m
    /\ Log[1].tag = "AddLine" /\ Log[1].m # Log[2].m

\* C32: the two capture machines are independent.  While is_calibrating is
\* true a click is a calibration click, and it changes neither the
\* measurement state nor the history nor the derived state; toggling
\* calibration mode and submitting a calibration leave the measurement state
\* as it is; so a start point selected before the calibration is still
\* pending after it, and the click that then completes the measurement
\* commits a record from that start point.
C32_IndependentMachines ==
    [][
        /\ is_calibrating =>
              last'.op \notin {"first_click", "add_line", "add_rect"}
        /\ last'.op = "calibration_click" =>
              /\ is_calibrating
              /\ measurement_state' = measurement_state
              /\ history' = history
              /\ Derived' = Derived
        /\ last'.op \in {"toggle_calibration", "set_calibration"} =>
              measurement_state' = measurement_state
        /\ last'.op \in {"add_line", "add_rect"} =>
              /\ measurement_state.tag = "FirstPointSelected"
              /\ measurement_state' = Idle
              /\ calibration_state' = calibration_state
              /\ LET a == Log'[Len(Log')]
                 IN  IF a.tag = "AddLine"
                     THEN a.m.start = measurement_state.start
                     ELSE a.r.corner1 = measurement_state.start
    ]_vars

\* A calibration was captured and accepted while a start point was pending:
\* the start point is still there.
C32_Witness ==
    /\ last.op = "set_calibration" /\ last.ret
    /\ ~is_calibrating
    /\ calibration.tag = "Some"
    /\ measurement_state.tag = "FirstPointSelected"

\* The calibration capture waits for its input while a start point is
\* pending.
C32_BothPendingWitness ==
    /\ is_calibrating
    /\ calibration_state.tag = "WaitingForInput"
    /\ measurement_state.tag = "FirstPointSelected"

\* The measurement was completed on top of the calibration.
C32_CompletedWitness ==
    /\ last.op = "add_line"
    /\ history.cursor = 2
    /\ Log[1].tag = "SetCalibration"
    /\ Log[2].tag = "AddLine"
    /\ measurement_state = Idle

\* C35: whenever the calibration capture state is FirstPointSelected or
\* WaitingForInput, is_calibrating is true; whenever is_calibrating is false
\* the calibration capture state is Idle.
C35_CaptureOnlyWhileCalibrating ==
    /\ calibration_state.tag \in {"FirstPointSelected", "WaitingForInput"} =>
          is_calibrating
    /\ ~is_calibrating => calibration_state = Idle

\* Calibration mode was left by an accepted submission: the capture state,
\* WaitingForInput before, is Idle.
C35_Witness ==
    /\ last.op = "set_calibration" /\ last.ret
    /\ ~is_calibrating
    /\ calibration_state = Idle

\* A capture in progress, in calibration mode.
C35_CapturingWitness ==
    /\ is_calibrating
    /\ calibration_state.tag = "FirstPointSelected"

\* The handlers that edit the history without a canvas click: undo, redo,
\* the remove buttons, clear calibration and clear all.
HistoryEdits ==
    {"undo", "redo", "remove_line", "remove_rect", "clear_calibration",
     "clear_all"}

\* C36: undo and redo (button or shortcut), remove line, remove rectangle,
\* clear calibration and clear all leave the measurement capture state, the
\* calibration capture state and is_calibrating unchanged; a click that
\* completes a measurement commits the record from the stored start point
\* after the entries left of the cursor, the undone entries being dropped.
C36_EditsKeepCaptures ==
    [][
        /\ last'.op \in HistoryEdits =>
              /\ measurement_state' = measurement_state
              /\ calibration_state' = calibration_state
              /\ is_calibrating' = is_calibrating
        /\ last'.op \in {"add_line", "add_rect"} =>
              LET a == Log'[Len(Log')]
              IN  /\ Log' = Append(SubSeq(Log, 1, history.cursor), a)
                  /\ history'.cursor = history.cursor + 1
                  /\ IF a.tag = "AddLine"
                     THEN a.m.start = measurement_state.start
                     ELSE a.r.corner1 = measurement_state.start
    ]_vars

\* An undo took back an entry while a first point was selected: the capture
\* is still pending.
C36_Witness ==
    /\ last.op = "undo" /\ last.ret
    /\ can_redo(history)
    /\ measurement_state.tag = "FirstPointSelected"

\* A measurement was committed on top of an undone history.
C36_CommitWitness ==
    /\ last.op = "add_line"
    /\ last.tail > 0
    /\ history.cursor = Len(Log)
    /\ measurement_state = Idle

\* A calibration was cleared while the calibration form waited for its input
\* and a first point was selected.
C36_ClearWitness ==
    /\ last.op = "clear_calibration"
    /\ is_calibrating
    /\ calibration_state.tag = "WaitingForInput"
    /\ measurement_state.tag = "FirstPointSelected"

\* C37: after clear all with an active calibration c, can_undo is true and
\* one undo succeeds and leaves no calibration and two empty lists (a second
\* one fails); after clear all the log holds no measurement, undo and redo
\* do not change the log, and the lists they rebuild hold records of the log
\* only: no sequence of undos and redos brings a cleared measurement back.
C37_ClearAllIsFinal ==
    [][
        /\ last'.op = "clear_all" =>
              /\ LinesOf(Log') = {} /\ RectsOf(Log') = {}
              /\ measurements' = <<>> /\ rectangle_measurements' = <<>>
              /\ calibration' = calibration
              /\ calibration.tag = "Some" =>
                    /\ can_undo(history')
                    /\ undo(history').ret
                    /\ rebuild_state(undo(history').h) = EmptyState
                    /\ ~undo(undo(history').h).ret
              /\ calibration.tag = "None" => ~can_undo(history')
        /\ last'.op \in {"undo", "redo"} =>
              /\ Log' = Log
              /\ Range(measurements') \subseteq LinesOf(Log)
              /\ Range(rectangle_measurements') \subseteq RectsOf(Log)
              /\ (LinesOf(Log) = {} /\ RectsOf(Log) = {}) =>
                    (measurements' = <<>> /\ rectangle_measurements' = <<>>)
    ]_vars

\* Clear all kept the calibration as the only entry of the log.
C37_Witness ==
    /\ last.op = "clear_all"
    /\ calibration.tag = "Some"
    /\ Log = <<SetCalibration(calibration)>>
    /\ history.cursor = 1
    /\ measurements = <<>> /\ rectangle_measurements = <<>>

\* The kept calibration was undone: nothing is left, and nothing but the
\* calibration can be redone.
C37_UndoneWitness ==
    /\ last.op = "undo" /\ last.ret
    /\ history.cursor = 0
    /\ Len(Log) = 1 /\ Log[1].tag = "SetCalibration"
    /\ calibration = None
    /\ measurements = <<>> /\ rectangle_measurements = <<>>

\* The step leaves WaitingForInput for Idle: an accepted submission, the
\* calibration toggle or a successful image load.
LeavesForm ==
    /\ calibration_state' = Idle
    /\ \/ last'.op = "set_calibration" /\ last'.ret
       \/ last'.op = "toggle_calibration"
       \/ last'.op = "load_image" /\ last'.ret

\* C38: once the calibration capture state is WaitingForInput it keeps its
\* start, end and distance_px under clicks, rejected submissions, undo, redo,
\* removals, clear calibration, clear all, measurement cancel and mode
\* changes; it is left only by an accepted submission, the calibration
\* toggle or a successful image load, each of which leads to Idle.
C38_WaitingForInputStays ==
    [][
        calibration_state.tag = "WaitingForInput" =>
            /\ calibration_state' = calibration_state \/ LeavesForm
            /\ ( \/ last'.op = "set_calibration" /\ last'.ret
                 \/ last'.op = "toggle_calibration"
                 \/ last'.op = "load_image" /\ last'.ret ) =>
                  calibration_state' = Idle
            /\ ( \/ last'.op \in {"calibration_click", "undo", "redo",
                                   "remove_line", "remove_rect",
                                   "clear_calibration", "clear_all", "cancel",
                                   "set_mode", "set_length_snap"}
                 \/ last'.op = "set_calibration" /\ ~last'.ret
                 \/ last'.op = "load_image" /\ ~last'.ret ) =>
                  calibration_state' = calibration_state
            /\ last'.op \notin {"first_click", "add_line", "add_rect"}
    ]_vars

\* A submission was rejected: the form still waits.
C38_Witness ==
    /\ last.op = "set_calibration" /\ ~last.ret
    /\ calibration_state.tag = "WaitingForInput"
    /\ calibration_state.distance_px > 0

\* A line was removed while the form waited.
C38_RemovalWitness ==
    /\ last.op = "remove_line"
    /\ calibration_state.tag = "WaitingForInput"

\* The measurement capture was cancelled while the form waited.
C38_CancelWitness ==
    /\ last.op = "cancel"
    /\ calibration_state.tag = "WaitingForInput"

\* An image was loaded while the form waited: the capture is Idle.
C38_LoadWitness ==
    /\ last.op = "load_image" /\ last.ret
    /\ calibration_state = Idle
    /\ ~is_calibrating

\* undo() called on h until it returns false: the number of calls that
\* returned true, and the history that is left.
RECURSIVE UndoCount(_)
UndoCount(h) == IF undo(h).ret THEN 1 + UndoCount(undo(h).h) ELSE 0

RECURSIVE UndoAll(_)
UndoAll(h) == IF undo(h).ret THEN UndoAll(undo(h).h) ELSE undo(h).h

\* The same for redo().
RECURSIVE RedoCount(_)
RedoCount(h) == IF redo(h).ret THEN 1 + RedoCount(redo(h).h) ELSE 0

RECURSIVE RedoAll(_)
RedoAll(h) == IF redo(h).ret THEN RedoAll(redo(h).h) ELSE redo(h).h

\* C39: from any reachable history, undo() called again and again returns
\* true exactly cursor times and then false, with cursor = 0 and an empty
\* derived state (no line, no rectangle, no calibration) at that point;
\* redo() returns true exactly actions.len() - cursor times and then false.
\* The undos that ran since the last push are counted by the mark.
C39_UndoRedoTerminate ==
    /\ UndoCount(history) = history.cursor
    /\ UndoAll(history) = [history EXCEPT !.cursor = 0]
    /\ rebuild_state(UndoAll(history)) = EmptyState
    /\ ~undo(UndoAll(history)).ret
    /\ RedoCount(history) = Len(Log) - history.cursor
    /\ RedoAll(history) = [history EXCEPT !.cursor = Len(Log)]
    /\ ~redo(RedoAll(history)).ret
    /\ mark.redos = 0 => mark.undos = mark.h.cursor - history.cursor
    /\ (last.op = "undo" /\ ~last.ret) =>
          (history.cursor = 0 /\ Derived = EmptyState)
    /\ (last.op = "redo" /\ ~last.ret) => history.cursor = Len(Log)

\* Three undos returned true and the fourth false.
C39_Witness ==
    /\ last.op = "undo" /\ ~last.ret
    /\ mark.redos = 0
    /\ mark.undos = 3
    /\ mark.h.cursor = 3
    /\ history.cursor = 0
    /\ Derived = EmptyState

\* After two undos, two redos returned true and the third false.
C39_RedoWitness ==
    /\ last.op = "redo" /\ ~last.ret
    /\ mark.undos = 2 /\ mark.redos = 2
    /\ history.cursor = Len(Log)
    /\ Len(Log) = 3

\* C34: whatever the user does (clicks, removals picked from the lists on
\* display, calibration submissions, clear calibration, undo, redo, clear
\* all, image load), every RemoveLine(i) and RemoveRect(i) of the log is in
\* range when the replay reaches it, so the replay never skips a removal and
\* each removal applied takes exactly one element away.
C34_RemovalsInRange ==
    \A k \in 1..Len(Log) :
        LET before == Replay(Log, k - 1)
            after == Replay(Log, k)
        IN  /\ Log[k].tag = "RemoveLine" =>
                  /\ Log[k].index < Len(before.measurements)
                  /\ Len(after.measurements) = Len(before.measurements) - 1
            /\ Log[k].tag = "RemoveRect" =>
                  /\ Log[k].index < Len(before.rectangle_measurements)
                  /\ Len(after.rectangle_measurements) =
                        Len(before.rectangle_measurements) - 1

\* A removal was undone and redone: it is replayed on the line it was
\* pushed for.
C34_Witness ==
    /\ last.op = "redo" /\ last.ret
    /\ history.cursor = 2
    /\ Log[1].tag = "AddLine"
    /\ Log[2] = RemoveLine(0)
    /\ measurements = <<>>

\* A rectangle removal in the log, behind the cursor after an undo.
C34_RectWitness ==
    /\ last.op = "undo" /\ last.ret
    /\ history.cursor = 1
    /\ Len(Log) = 2
    /\ Log[2] = RemoveRect(0)
    /\ Len(rectangle_measurements) = 1

\* The records of both exports are those of the derived lists, in their
\* order, numbered 1, 2, ..., lines and rectangles apart.
LineRow(row, k) ==
    /\ row.id = k
    /\ row.start = measurements[k].start
    /\ row.end = measurements[k].end
    /\ row.distance_px = measurements[k].distance_px

RectangleRow(row, k) ==
    /\ row.id = k
    /\ row.corner1 = rectangle_measurements[k].corner1
    /\ row.corner2 = rectangle_measurements[k].corner2
    /\ row.width_px = rectangle_measurements[k].width_px
    /\ row.height_px = rectangle_measurements[k].height_px
    /\ row.area_px = rectangle_measurements[k].area_px

ExportInOrder ==
    /\ Len(export_csv.lines) = Len(measurements)
    /\ Len(export_json.measurements) = Len(measurements)
    /\ Len(export_csv.rectangles) = Len(rectangle_measurements)
    /\ Len(export_json.rectangle_measurements) = Len(rectangle_measurements)
    /\ \A k \in 1..Len(measurements) :
          /\ LineRow(export_csv.lines[k], k)
          /\ LineRow(export_json.measurements[k], k)
    /\ \A k \in 1..Len(rectangle_measurements) :
          /\ RectangleRow(export_csv.rectangles[k], k)
          /\ RectangleRow(export_json.rectangle_measurements[k], k)

\* The calibrated fields are there (a text in the CSV, a number in the JSON)
\* exactly when a calibration is active.
ExportCalibratedFields ==
    LET active == calibration.tag = "Some"
    IN  /\ \A k \in 1..Len(measurements) :
              /\ export_csv.lines[k].distance_calibrated # StringNew <=> active
              /\ export_json.measurements[k].distance_calibrated # JsonNull
                    <=> active
        /\ \A k \in 1..Len(rectangle_measurements) :
              LET c == export_csv.rectangles[k]
                  j == export_json.rectangle_measurements[k]
              IN  /\ c.width_calibrated # StringNew <=> active
                  /\ c.height_calibrated # StringNew <=> active
                  /\ c.area_calibrated # StringNew <=> active
                  /\ j.width_calibrated # JsonNull <=> active
                  /\ j.height_calibrated # JsonNull <=> active
                  /\ j.area_calibrated # JsonNull <=> active

\* The unit label is "px" exactly when no calibration is active, and the
\* calibration's unit_name otherwise.
ExportUnitLabel ==
    LET UnitsOf(rows) == {rows[k].unit : k \in 1..Len(rows)}
    IN  \A unit \in UnitsOf(export_csv.lines)
                      \cup UnitsOf(export_csv.rectangles)
                      \cup UnitsOf(export_json.measurements)
                      \cup UnitsOf(export_json.rectangle_measurements) :
            /\ unit = "px" <=> calibration.tag = "None"
            /\ calibration.tag = "Some" => unit = calibration.val.unit_name

\* C33: in both exports the records appear in the order of the derived
\* lists with ids 1, 2, ..., n, lines and rectangles numbered apart; the
\* calibrated fields are non-blank in the CSV and non-null in the JSON exactly
\* when a calibration is active; and the unit label is "px" exactly when no
\* calibration is active and the calibration's unit_name otherwise.
C33_ExportFields ==
    /\ ExportInOrder
    /\ ExportCalibratedFields
    /\ ExportUnitLabel

====
